---- MODULE Spec2Model ----
(***************************************************************************)
(* Model of the EdgeAI browser extension's background service worker       *)
(* (src/background.js): the message listeners, the three search handlers,  *)
(* the two backend adapters, URL aggregation and the per-URL harvest       *)
(* (openAndExtractContent) with its timer, tab and message listener.       *)
(*                                                                         *)
(* JavaScript strings are modelled as sequences of tokens, so that         *)
(* startsWith / includes / decodeURIComponent are computed on them.        *)
(* JavaScript values of unknown shape (a JSON body, request.urls) are      *)
(* tagged records [t, v]: t is the type tag, v the elements of a list or   *)
(* the characters of a string.                                             *)
(***************************************************************************)
EXTENDS Integers, Sequences, FiniteSets, TLC

(***************************************************************************)
(* Program constants and model bounds                                      *)
(***************************************************************************)

\* src/background.js:4
MAX_PAGES_PER_SEARCH == 3

\* src/background.js:294
DDG_SLICE == 3

\* longest caller-supplied url list of an EXTRACT_URLS request
MaxExtractLen == 3

\* longest candidate sequence handed to the URL Aggregator on its own
MaxSeqLen == 3

\* longest text handed to the Text Extractor's cleaning on its own
MaxTextLen == 4

\* most items (uddg= matches, anchors) of an HTML body parsed on its own
MaxHtmlLen == 5

MaxClock == 3

\* most PERMISSION_MODE_CHANGED messages on their way to one page
MaxNotices == 2

\* the documents handed to extractMainContent on its own have elements for
\* the first MaxSelectors entries of mainSelectors only
MaxSelectors == 3

(***************************************************************************)
(* URLs (token sequences)                                                  *)
(***************************************************************************)

WikiA == <<"http", "://", "wikipedia", "/", "A">>
WikiB == <<"http", "://", "wikipedia", "/", "B">>
SiteC == <<"http", "://", "c.example">>
SiteD == <<"http", "://", "d.example">>
SiteE == <<"http", "://", "e.example", "/", "wikipedia">>
DdgSelf == <<"http", "://", "duckduckgo.com", "/", "y.js">>
FtpF == <<"ftp", "://", "f.example">>

\* a list element that is not a string (a JSON number)
NotAString == <<"#number">>

IsString(u) == u # NotAString

\* String.prototype.includes(tok) for a one-token needle
Includes(s, tok) == \E i \in 1..Len(s) : s[i] = tok

\* String.prototype.startsWith(tok)
StartsWith(s, tok) == Len(s) > 0 /\ s[1] = tok

(***************************************************************************)
(* JavaScript values                                                       *)
(***************************************************************************)

JsList(s) == [t |-> "list", v |-> s]
JsString(s) == [t |-> "string", v |-> s]
JsNumber == [t |-> "number", v |-> <<>>]
JsUndefined == [t |-> "undefined", v |-> <<>>]

\* ToBoolean: [] and {} are truthy; undefined, 0 and "" are falsy
Truthy(x) ==
  CASE x.t = "list" -> TRUE
    [] x.t = "string" -> x.v # <<>>
    [] x.t = "number" -> TRUE
    [] OTHER -> FALSE

\* whether [...x] succeeds (x has Symbol.iterator); otherwise TypeError
Iterable(x) == x.t \in {"list", "string"}

\* whether x.map is a function (Array.prototype.map)
HasMap(x) == x.t = "list"

(***************************************************************************)
(* Sequence helpers as the code computes them                              *)
(***************************************************************************)

\* Array.prototype.slice(0, n)
Slice(s, n) == SubSeq(s, 1, IF Len(s) < n THEN Len(s) ELSE n)

SeqContains(s, x) == \E i \in 1..Len(s) : s[i] = x

RECURSIVE SetInsertAll(_, _)
\* new Set(iterable): insert in iteration order, a present value is not
\* inserted again (insertion order is the iteration order of the Set)
SetInsertAll(acc, s) ==
  IF s = <<>> THEN acc
  ELSE SetInsertAll(IF SeqContains(acc, Head(s)) THEN acc ELSE Append(acc, Head(s)),
                    Tail(s))

DedupeKeepLast(s) ==
  LET RECURSIVE go(_)
      go(r) == IF r = <<>> THEN <<>>
               ELSE IF SeqContains(Tail(r), Head(r)) THEN go(Tail(r))
               ELSE <<Head(r)>> \o go(Tail(r))
  IN go(s)

NoDedupe(s) == s

\* [...new Set(s)]
Dedupe(s) == SetInsertAll(<<>>, s)

(***************************************************************************)
(* Adapter A: searchWikipedia                                              *)
(***************************************************************************)

\* what fetch + response.json() can produce for the open-search request:
\* kind "neterr" (fetch rejects), "nonjson" (response.json() rejects),
\* "null" (the body is the JSON value null), "json" (an array or object
\* whose element 3 is d3)
WikiResponse(kind, d3) == [kind |-> kind, d3 |-> d3]

\* the value searchWikipedia resolves to: data[3] || [], and [] when the
\* try block throws (fetch, response.json(), or data[3] on null)
searchWikipedia(resp) ==
  IF resp.kind \in {"neterr", "nonjson", "null"} THEN JsList(<<>>)
  ELSE IF Truthy(resp.d3) THEN resp.d3 ELSE JsList(<<>>)

(***************************************************************************)
(* Adapter B: searchDuckDuckGo / extractUrlsFromDDGLite                    *)
(***************************************************************************)

\* An HTML body is the sequence of its items in document order: an item
\* [k |-> "uddg", raw] is one match of /uddg=([^&"']+)/gi with capture raw
\* (percent-encoded tokens); [k |-> "anchor", raw] is an <a href="raw">
\* without a uddg= parameter.
Uddg(raw) == [k |-> "uddg", raw |-> raw]
Anchor(raw) == [k |-> "anchor", raw |-> raw]

\* a percent sequence that is not valid UTF-8: decodeURIComponent throws
MalformedTok == "%E0%A4%A"

DecodeTok(tok) ==
  CASE tok = "%3A%2F%2F" -> "://"
    [] tok = "%2F" -> "/"
    [] OTHER -> tok

EncodeTok(tok) ==
  CASE tok = "://" -> "%3A%2F%2F"
    [] tok = "/" -> "%2F"
    [] OTHER -> tok

\* encodeURIComponent, used to build the bodies below
Encode(s) == [i \in 1..Len(s) |-> EncodeTok(s[i])]

DecodeThrows(raw) == Includes(raw, MalformedTok)

\* decodeURIComponent(raw), defined when it does not throw
decodeURIComponent(raw) == [i \in 1..Len(raw) |-> DecodeTok(raw[i])]

RECURSIVE UddgMatchesAbort(_)
\* a loop inside one try block: the first value that cannot be decoded ends
\* the scan
UddgMatchesAbort(html) ==
  IF html = <<>> THEN <<>>
  ELSE LET it == Head(html)
       IN IF it.k # "uddg" THEN UddgMatchesAbort(Tail(html))
          ELSE IF DecodeThrows(it.raw) THEN <<>>
          ELSE LET decodedUrl == decodeURIComponent(it.raw)
               IN IF StartsWith(decodedUrl, "http")
                     /\ ~Includes(decodedUrl, "duckduckgo.com")
                  THEN <<decodedUrl>> \o UddgMatchesAbort(Tail(html))
                  ELSE UddgMatchesAbort(Tail(html))

RECURSIVE UddgMatches(_)
\* the loop of extractUrlsFromDDGLite: urls pushed in match order
UddgMatches(html) ==
  IF html = <<>> THEN <<>>
  ELSE LET it == Head(html)
           rest == UddgMatches(Tail(html))
       IN IF it.k # "uddg" \/ DecodeThrows(it.raw) THEN rest
          ELSE LET decodedUrl == decodeURIComponent(it.raw)
               IN IF StartsWith(decodedUrl, "http")
                     /\ ~Includes(decodedUrl, "duckduckgo.com")
                  THEN <<decodedUrl>> \o rest
                  ELSE rest

extractUrlsFromDDGLite(html) == Dedupe(UddgMatches(html))

\* what fetch + response.text() can produce for the lite HTML request:
\* kind "neterr" (fetch or text() rejects), "notok" (!response.ok), "ok"
DdgResponse(kind, html) == [kind |-> kind, html |-> html]

\* the value searchDuckDuckGo resolves to
searchDuckDuckGo(resp) ==
  IF resp.kind # "ok" THEN JsList(<<>>)
  ELSE JsList(Slice(extractUrlsFromDDGLite(resp.html), DDG_SLICE))

(***************************************************************************)
(* URL Aggregator (handleSearchRequest / handleSearchOnly)                 *)
(***************************************************************************)

\* [...wikipediaUrls, ...duckduckgoUrls] throws a TypeError when one of
\* the two values is not iterable
SpreadThrows(w, d) == ~Iterable(w) \/ ~Iterable(d)

\* allUrls = [...new Set([...wikipediaUrls, ...duckduckgoUrls])]
Aggregate(w, d) == Dedupe(w.v \o d.v)

NoBudget(all) == all

\* urlsToOpen = allUrls.slice(0, MAX_PAGES_PER_SEARCH)
UrlsToOpen(all) == Slice(all, MAX_PAGES_PER_SEARCH)

(***************************************************************************)
(* State                                                                   *)
(***************************************************************************)

VARIABLES
  pc,          \* position of the request handler: "idle", "searching",
               \* "harvesting", "done"
  request,     \* the request the listener received: [type, urls]
  wiki,        \* promise of searchWikipedia: [st, val]
  ddg,         \* promise of searchDuckDuckGo: [st, val]
  allUrls,     \* handleSearchRequest / handleSearchOnly: allUrls
  urlsToOpen,  \* the url list handed to openAndExtractContent
  att,         \* one record per openAndExtractContent call, in call order
  tabs,        \* ids of the tabs open in the browser
  nextTabId,   \* id the browser gives to the next tab it creates
  inflight,    \* CONTENT_EXTRACTED messages sent and not yet dispatched
  straySent,   \* the user tabs whose content script has sent its signal
  replies,     \* the arguments of the sendResponse calls, in order
  thrown,      \* exception raised inside the handler's try block
  uncaught,    \* an exception left the handler (its promise rejected)
  aggA, aggB,  \* URL Aggregator inputs (candidate sequences)
  aggOut,      \* URL Aggregator output
  aggPc,       \* "in" before the merge, "out" after it
  requests,         \* per request id: the request a listener received, the
               \* position of its handler and the sendResponse calls made
  stored,      \* chrome.storage.local[STORAGE_KEY]: ids of stored results
  clIn,        \* Text Extractor input: the text extractMainContent yields
  clOut,       \* Text Extractor output and the source record made of it
  clPc,        \* "in" before the extraction, "out" after it
  htmlIn,      \* Adapter B input: the HTML body
  htmlOut,     \* Adapter B output
  htmlPc,      \* "in" before the parse, "out" after it
  permissionMode, \* content script: let permissionMode
  web,         \* per web-app request: what the content script did with it
  clock,       \* the value Date.now() returns
  run,         \* the Date.now() readings of one SEARCH_AND_EXTRACT run
  docIn,       \* the document handed to extractMainContent on its own
  docOut,      \* what extractMainContent returned: [from, len]
  docPc,       \* "in" before the call, "out" after it
  storage,     \* chrome.storage.local: permissionMode, language, pendingUpdate
  script,      \* the content script of one page: origin, isWebApp, read
  notices,     \* PERMISSION_MODE_CHANGED messages sent to the page, in order
  upd,         \* the last checkForUpdates call: result, storage before and after
  apiStats,    \* apiStats: active and totalRequests of inbound and outbound
  api,         \* per CHAT_COMPLETIONS request: handleInboundApiRequest
  fetches      \* per external FETCH_JSON request: "none", "inflight", "done"

vars == <<pc, request, wiki, ddg, allUrls, urlsToOpen, att, tabs, nextTabId,
          inflight, straySent, replies, thrown, uncaught,
          aggA, aggB, aggOut, aggPc, requests, stored, clIn, clOut, clPc,
          htmlIn, htmlOut, htmlPc, permissionMode, web, clock, run,
          docIn, docOut, docPc,
          storage, script, notices, upd,
          apiStats, api, fetches>>

runVars == <<pc, request, wiki, ddg, allUrls, urlsToOpen, att, tabs, nextTabId,
             inflight, straySent, replies, thrown, uncaught>>

aggVars == <<aggA, aggB, aggOut, aggPc>>

msgVars == <<requests, stored>>

cleanVars == <<clIn, clOut, clPc>>

htmlVars == <<htmlIn, htmlOut, htmlPc>>

permVars == <<permissionMode, web>>

timeVars == <<clock, run>>

docVars == <<docIn, docOut, docPc>>

pageVars == <<storage, script, notices, upd>>

apiVars == <<apiStats, api, fetches>>

sideVars == <<msgVars, cleanVars, htmlVars, permVars, timeVars,
               docVars, pageVars, apiVars>>

\* tabs the user has open; their content script auto-extracts too
UserTabs == {1}

(***************************************************************************)
(* Inputs                                                                  *)
(***************************************************************************)

RequestTypes == {"SEARCH_AND_EXTRACT", "SEARCH_ONLY", "EXTRACT_URLS"}

ExtractList == <<SiteC, WikiA, SiteD, SiteE, WikiB>>

\* request.urls of an EXTRACT_URLS request
ExtractInputs ==
  {JsList(SubSeq(ExtractList, 1, n)) : n \in 0..MaxExtractLen}
    \cup {JsUndefined, JsString(<<SiteC>>)}

WikiResponses ==
  {WikiResponse("neterr", JsUndefined),
   WikiResponse("nonjson", JsUndefined),
   WikiResponse("null", JsUndefined),
   WikiResponse("json", JsUndefined),
   WikiResponse("json", JsNumber),
   WikiResponse("json", JsList(<<>>)),
   WikiResponse("json", JsList(<<WikiA>>)),
   WikiResponse("json", JsList(<<WikiA, WikiB>>)),
   WikiResponse("json", JsList(<<NotAString>>))}

HtmlEmpty == <<>>
HtmlTwo == <<Uddg(Encode(SiteC)), Uddg(Encode(SiteD))>>
HtmlMixed ==
  <<Anchor(DdgSelf), Uddg(Encode(WikiA)), Uddg(<<"http", MalformedTok>>),
    Uddg(Encode(DdgSelf)), Uddg(Encode(SiteC)), Uddg(Encode(FtpF)),
    Uddg(Encode(SiteC)), Uddg(Encode(SiteD)), Uddg(Encode(SiteE))>>
HtmlAnchors == <<Anchor(SiteC), Anchor(SiteD), Anchor(DdgSelf)>>

DdgResponses ==
  {DdgResponse("neterr", HtmlEmpty), DdgResponse("notok", HtmlTwo),
   DdgResponse("ok", HtmlEmpty), DdgResponse("ok", HtmlTwo),
   DdgResponse("ok", HtmlMixed), DdgResponse("ok", HtmlAnchors)}

(***************************************************************************)
(* Text Extractor (content script): cleanText, countWords,                 *)
(* extractPageContent.  A text is a sequence of characters: "a" is a       *)
(* printable character, " " the space, "nl" a newline, "x0B" the vertical  *)
(* tab (whitespace and control character), "x01" a C0 control character.   *)
(***************************************************************************)

Chars == {"a", " ", "nl", "x0B", "x01"}

\* the class \s
IsWs(c) == c \in {" ", "nl", "x0B"}

\* the class [\x00-\x08\x0B\x0C\x0E-\x1F\x7F]
IsCtl(c) == c \in {"x01", "x0B"}

RECURSIVE CollapseWs(_)
\* .replace(/\s+/g, ' ')
CollapseWs(s) ==
  IF s = <<>> THEN <<>>
  ELSE IF IsWs(Head(s))
       THEN IF Tail(s) # <<>> /\ IsWs(Head(Tail(s)))
            THEN CollapseWs(Tail(s))
            ELSE <<" ">> \o CollapseWs(Tail(s))
       ELSE <<Head(s)>> \o CollapseWs(Tail(s))

RECURSIVE CollapseSpaces(_)
\* .replace(/ {2,}/g, ' ')
CollapseSpaces(s) ==
  IF s = <<>> THEN <<>>
  ELSE IF Head(s) = " " /\ Tail(s) # <<>> /\ Head(Tail(s)) = " "
       THEN CollapseSpaces(Tail(s))
       ELSE <<Head(s)>> \o CollapseSpaces(Tail(s))

RECURSIVE TrimStart(_)
TrimStart(s) == IF s # <<>> /\ IsWs(Head(s)) THEN TrimStart(Tail(s)) ELSE s

RECURSIVE TrimEnd(_)
TrimEnd(s) ==
  IF s # <<>> /\ IsWs(s[Len(s)]) THEN TrimEnd(SubSeq(s, 1, Len(s) - 1)) ELSE s

\* .trim()
Trim(s) == TrimEnd(TrimStart(s))

IsPrintable(c) == ~IsCtl(c)

\* .replace(/[\x00-\x08\x0B\x0C\x0E-\x1F\x7F]/g, '')
RemoveCtl(s) == SelectSeq(s, IsPrintable)

\* cleanText: the four calls in the order of the code
cleanText(text) == RemoveCtl(Trim(CollapseSpaces(CollapseWs(text))))

RECURSIVE SplitWs(_, _, _)
\* text.split(/\s+/): the pieces between maximal whitespace runs, empty
\* pieces included ("" splits into one empty piece)
SplitWs(rest, cur, inWs) ==
  IF rest = <<>> THEN <<cur>>
  ELSE IF IsWs(Head(rest))
       THEN IF inWs THEN SplitWs(Tail(rest), cur, TRUE)
            ELSE <<cur>> \o SplitWs(Tail(rest), <<>>, TRUE)
       ELSE SplitWs(Tail(rest), Append(cur, Head(rest)), FALSE)

NonEmptyWord(w) == Len(w) > 0

CountPieces(text) == Len(SplitWs(text, <<>>, FALSE))

\* countWords: text.split(/\s+/).filter(word => word.length > 0).length
countWords(text) == Len(SelectSeq(SplitWs(text, <<>>, FALSE), NonEmptyWord))

\* a loaded page as the extractor sees it: document.title, and the text
\* extractMainContent returns unless it throws
Page(title, throws, text) == [title |-> title, throws |-> throws, text |-> text]

\* extractPageContent: content and wordCount stay '' and 0 when the try
\* block throws
extractPageContent(page) ==
  IF page.throws
  THEN [title |-> page.title, content |-> <<>>, wordCount |-> 0]
  ELSE [title |-> page.title, content |-> cleanText(page.text),
        wordCount |-> countWords(cleanText(page.text))]

\* the page loaded at url (the page at SiteD has no title and makes the
\* extraction throw)
PageAt(url) ==
  IF url = SiteD
  THEN Page(<<>>, TRUE, <<>>)
  ELSE Page(<<"T">>, FALSE, <<" ", "a", "nl", "nl", "b", " ">>)

\* request.data of the CONTENT_EXTRACTED message the page at url sends
PageData(url) == extractPageContent(PageAt(url))

StrayPayload == extractPageContent(Page(<<"U">>, FALSE, <<"a">>))

(***************************************************************************)
(* Page Harvester: openAndExtractContent                                   *)
(***************************************************************************)

NoValue == [url |-> <<>>, title |-> <<>>, content |-> <<>>, wordCount |-> 0]

\* the state of one call right after the executor's synchronous part:
\* tabId = null (0), the 25 s timer armed, chrome.tabs.create pending
NewAttempt(url) ==
  [url |-> url, create |-> "pending", tabId |-> 0, timer |-> "armed",
   listening |-> FALSE, promise |-> "pending", cause |-> "none",
   value |-> NoValue, removes |-> 0, sent |-> FALSE]

\* urls.map(url => openAndExtractContent(url, id))
StartAttempts(urls) == [i \in 1..Len(urls) |-> NewAttempt(urls[i])]

\* reject(...) on a promise: only a pending promise changes
Reject(a, cause) ==
  IF a.promise = "pending"
  THEN [a EXCEPT !.promise = "rejected", !.cause = cause]
  ELSE a

\* a resolve that overwrites a promise already settled
ResolveAlways(a, value) == [a EXCEPT !.promise = "fulfilled", !.value = value]

\* resolve(value) on a promise: only a pending promise changes
Resolve(a, value) ==
  IF a.promise = "pending"
  THEN [a EXCEPT !.promise = "fulfilled", !.value = value]
  ELSE a

\* clearTimeout(timeout): a timer that has fired stays fired
ClearTimer(a) == IF a.timer = "armed" THEN [a EXCEPT !.timer = "cleared"] ELSE a

\* the object the listener resolves with
Extracted(url, data) ==
  [url |-> url,
   title |-> IF data.title # <<>> THEN data.title ELSE url,
   content |-> data.content,
   wordCount |-> data.wordCount]

\* a listener that accepts CONTENT_EXTRACTED from any sender
ListenerMatchesAny(a, msg) == a.listening

\* the listener's test: request.type === 'CONTENT_EXTRACTED' && sender.tab
\* && sender.tab.id === tabId  (every message in flight is CONTENT_EXTRACTED)
ListenerMatches(a, msg) == a.listening /\ msg.tab = a.tabId

\* a listener that treats a signal without content as a failed extraction
OnSignalRejectEmpty(a, msg) ==
  IF msg.data.content = <<>>
  THEN Reject([ClearTimer(a) EXCEPT !.listening = FALSE, !.removes = @ + 1],
              "extraction")
  ELSE Resolve([ClearTimer(a) EXCEPT !.listening = FALSE, !.removes = @ + 1],
               Extracted(a.url, msg.data))

\* the listener's body for a matching message
OnSignal(a, msg) ==
  Resolve([ClearTimer(a) EXCEPT !.listening = FALSE, !.removes = @ + 1],
          Extracted(a.url, msg.data))

\* a timer callback that removes the tab and leaves the promise pending
TimeoutNoReject(a) ==
  [a EXCEPT !.timer = "fired", !.removes = IF a.tabId # 0 THEN @ + 1 ELSE @]

\* the setTimeout callback: remove the tab if tabId is set, then reject
OnTimeout(a) ==
  Reject([a EXCEPT !.timer = "fired",
                   !.removes = IF a.tabId # 0 THEN @ + 1 ELSE @],
         "timeout")

\* the catch block of the executor: clearTimeout, remove the tab if tabId
\* is set (it is not: create failed), reject(error)
OnCreateError(a) ==
  Reject([ClearTimer(a) EXCEPT !.create = "failed",
                               !.removes = IF a.tabId # 0 THEN @ + 1 ELSE @],
         "error")

\* await chrome.tabs.create resolved: tabId = tab.id, listener registered
OnCreated(a, id) ==
  [a EXCEPT !.create = "created", !.tabId = id, !.listening = TRUE]

\* chrome.tabs.create({ url, active: false }) resolves for attempt i
TabCreated(i) ==
  /\ i \in 1..Len(att)
  /\ att[i].create = "pending"
  /\ IsString(att[i].url)
  /\ att' = [att EXCEPT ![i] = OnCreated(@, nextTabId)]
  /\ tabs' = tabs \cup {nextTabId}
  /\ nextTabId' = nextTabId + 1
  /\ UNCHANGED <<pc, request, wiki, ddg, allUrls, urlsToOpen, inflight,
                 straySent, replies, thrown, uncaught, aggVars, sideVars>>

\* chrome.tabs.create throws or rejects for attempt i
CreateFails(i) ==
  /\ i \in 1..Len(att)
  /\ att[i].create = "pending"
  /\ att' = [att EXCEPT ![i] = OnCreateError(@)]
  /\ UNCHANGED <<pc, request, wiki, ddg, allUrls, urlsToOpen, tabs, nextTabId,
                 inflight, straySent, replies, thrown, uncaught, aggVars, sideVars>>

\* one timer shared by the attempts of a request: its expiry fails every
\* attempt whose timer is armed and removes their tabs
SharedTimerFires(i) ==
  /\ i \in 1..Len(att)
  /\ att[i].timer = "armed"
  /\ att' = [j \in 1..Len(att) |->
               IF att[j].timer = "armed" THEN OnTimeout(att[j]) ELSE att[j]]
  /\ tabs' = tabs \ {att[j].tabId : j \in {k \in 1..Len(att) : att[k].timer = "armed"}}
  /\ UNCHANGED <<pc, request, wiki, ddg, allUrls, urlsToOpen, nextTabId,
                 inflight, straySent, replies, thrown, uncaught, aggVars, sideVars>>

\* the 25 s timer of attempt i expires
TimerFires(i) ==
  /\ i \in 1..Len(att)
  /\ att[i].timer = "armed"
  /\ att' = [att EXCEPT ![i] = OnTimeout(@)]
  /\ tabs' = IF att'[i].removes > att[i].removes THEN tabs \ {att[i].tabId} ELSE tabs
  /\ UNCHANGED <<pc, request, wiki, ddg, allUrls, urlsToOpen, nextTabId,
                 inflight, straySent, replies, thrown, uncaught, aggVars, sideVars>>

\* the content script of the tab opened by attempt i, 1 s after the page
\* has loaded, calls sendToBackground(extractPageContent()), once
TabSends(i) ==
  /\ i \in 1..Len(att)
  /\ att[i].tabId \in tabs
  /\ ~att[i].sent
  /\ inflight' = inflight \cup {[tab |-> att[i].tabId, data |-> PageData(att[i].url)]}
  /\ att' = [att EXCEPT ![i].sent = TRUE]
  /\ UNCHANGED <<pc, request, wiki, ddg, allUrls, urlsToOpen, tabs, nextTabId,
                 straySent, replies, thrown, uncaught, aggVars, sideVars>>

\* the content script of a user tab calls sendToBackground
StraySends(t) ==
  /\ t \in UserTabs
  /\ t \notin straySent
  /\ inflight' = inflight \cup {[tab |-> t, data |-> StrayPayload]}
  /\ straySent' = straySent \cup {t}
  /\ UNCHANGED <<pc, request, wiki, ddg, allUrls, urlsToOpen, att, tabs,
                 nextTabId, replies, thrown, uncaught, aggVars, sideVars>>

\* a dispatch that reaches no listener: the message is dropped
DeliverUnheard(msg) ==
  /\ msg \in inflight
  /\ inflight' = inflight \ {msg}
  /\ UNCHANGED <<pc, request, wiki, ddg, allUrls, urlsToOpen, att, tabs, nextTabId,
                 straySent, replies, thrown, uncaught, aggVars, sideVars>>

\* chrome.runtime.onMessage dispatches msg to every registered listener;
\* the static listener returns false for CONTENT_EXTRACTED
Deliver(msg) ==
  /\ msg \in inflight
  /\ inflight' = inflight \ {msg}
  /\ att' = [i \in 1..Len(att) |->
               IF ListenerMatches(att[i], msg) THEN OnSignal(att[i], msg) ELSE att[i]]
  /\ tabs' = tabs \ {att[i].tabId : i \in {j \in 1..Len(att) : att'[j].removes > att[j].removes}}
  /\ UNCHANGED <<pc, request, wiki, ddg, allUrls, urlsToOpen, nextTabId,
                 straySent, replies, thrown, uncaught, aggVars, sideVars>>

(***************************************************************************)
(* Search Orchestrator: the listeners and the three handlers               *)
(***************************************************************************)

Idle == [st |-> "idle", val |-> JsUndefined]
Pending == [st |-> "pending", val |-> JsUndefined]
Returned(val) == [st |-> "done", val |-> val]

EitherReturned(w, d) == w.st = "done" \/ d.st = "done"

\* await Promise.all([searchWikipedia(query), searchDuckDuckGo(query)])
BothReturned(w, d) == w.st = "done" /\ d.st = "done"

AnySettled(a) == \E i \in 1..Len(a) : a[i].promise # "pending"

\* await Promise.allSettled(extractionPromises)
AllSettled(a) == \A i \in 1..Len(a) : a[i].promise # "pending"

AllOrNothing(a) ==
  IF \E i \in 1..Len(a) : a[i].promise = "rejected" THEN <<>>
  ELSE [i \in 1..Len(a) |-> a[i].value]

RECURSIVE SettledSourcesFrom(_, _)
SettledSourcesFrom(a, i) ==
  IF i > Len(a) THEN <<>>
  ELSE IF a[i].promise = "fulfilled" /\ a[i].value # NoValue
       THEN <<a[i].value>> \o SettledSourcesFrom(a, i + 1)
       ELSE SettledSourcesFrom(a, i + 1)

\* the fulfilled values, last attempt first
SettledSourcesReversed(a) ==
  LET s == SettledSourcesFrom(a, 1)
  IN [k \in 1..Len(s) |-> s[Len(s) + 1 - k]]

\* results.forEach(result => { if (result.status === 'fulfilled' &&
\* result.value) sources.push(result.value) })
SettledSources(a) == SettledSourcesFrom(a, 1)

NoReplyFields ==
  [success |-> FALSE, resultCount |-> 0, sources |-> <<>>, results |-> <<>>,
   status |-> "none", error |-> "none"]

FailIfEmpty(sources) ==
  IF sources = <<>>
  THEN [NoReplyFields EXCEPT !.error = "No results"]
  ELSE [NoReplyFields EXCEPT !.success = TRUE, !.resultCount = Len(sources),
                             !.sources = sources, !.status = "completed"]

\* { success: true, searchId, resultCount: sources.length,
\*   results: { searchId, query, timestamp, sources, status: 'completed' } }
SearchReply(sources) ==
  [NoReplyFields EXCEPT !.success = TRUE, !.resultCount = Len(sources),
                        !.sources = sources, !.status = "completed"]

\* { success: true, requestId, resultCount: sources.length, results: { sources } }
ExtractReply(sources) ==
  [NoReplyFields EXCEPT !.success = TRUE, !.resultCount = Len(sources),
                        !.sources = sources]

\* one entry of handleSearchOnly's results
SearchOnlyEntry(url) ==
  [title |-> url, url |-> url,
   source |-> IF Includes(url, "wikipedia") THEN "wikipedia" ELSE "duckduckgo"]

\* allUrls.map(url => ({ ..., source: url.includes('wikipedia') ? ... }))
\* throws a TypeError on an element that has no includes method
MapThrows(all) == \E i \in 1..Len(all) : ~IsString(all[i])

\* { success: true, searchId, resultCount: results.length, results }
SearchOnlyReply(all) ==
  [NoReplyFields EXCEPT !.success = TRUE, !.resultCount = Len(all),
                        !.results = [i \in 1..Len(all) |-> SearchOnlyEntry(all[i])]]

\* { success: false, searchId, error: error.message }
FailureReply(exc) == [NoReplyFields EXCEPT !.error = exc]

Rethrow(exc) == [replies |-> <<>>, uncaught |-> TRUE]

\* catch (error) { return { success: false, ..., error: error.message } }
\* followed by the listener's .then(sendResponse)
OnHandlerError(exc) == [replies |-> <<FailureReply(exc)>>, uncaught |-> FALSE]

\* the listener receives an EXTRACT_URLS request: handleExtractionRequest
\* up to its await
ReceiveExtract(urls) ==
  /\ pc = "idle"
  /\ request' = [type |-> "EXTRACT_URLS", urls |-> urls]
  /\ IF HasMap(urls)
     THEN /\ att' = StartAttempts(urls.v)
          /\ pc' = "harvesting"
          /\ UNCHANGED <<replies, thrown, uncaught>>
     ELSE /\ thrown' = "TypeError"
          /\ replies' = replies \o OnHandlerError("TypeError").replies
          /\ uncaught' = OnHandlerError("TypeError").uncaught
          /\ pc' = "done"
          /\ UNCHANGED att
  /\ UNCHANGED <<wiki, ddg, allUrls, urlsToOpen, tabs, nextTabId, inflight,
                 straySent, aggVars, sideVars>>

\* the listener receives a SEARCH_AND_EXTRACT or SEARCH_ONLY request: both
\* adapters are called (each issues its fetch) and Promise.all is awaited
ReceiveSearch(type) ==
  /\ pc = "idle"
  /\ type \in {"SEARCH_AND_EXTRACT", "SEARCH_ONLY"}
  /\ request' = [type |-> type, urls |-> JsUndefined]
  /\ wiki' = Pending
  /\ ddg' = Pending
  /\ pc' = "searching"
  /\ UNCHANGED <<allUrls, urlsToOpen, att, tabs, nextTabId, inflight,
                 straySent, replies, thrown, uncaught, aggVars, sideVars>>

\* the open-search request settles and searchWikipedia returns
WikiReturns(resp) ==
  /\ wiki.st = "pending"
  /\ wiki' = Returned(searchWikipedia(resp))
  /\ UNCHANGED <<pc, request, ddg, allUrls, urlsToOpen, att, tabs, nextTabId,
                 inflight, straySent, replies, thrown, uncaught, aggVars, sideVars>>

\* the lite HTML request settles and searchDuckDuckGo returns
DdgReturns(resp) ==
  /\ ddg.st = "pending"
  /\ ddg' = Returned(searchDuckDuckGo(resp))
  /\ UNCHANGED <<pc, request, wiki, allUrls, urlsToOpen, att, tabs, nextTabId,
                 inflight, straySent, replies, thrown, uncaught, aggVars, sideVars>>

\* handleSearchRequest after Promise.all: aggregate, truncate, start the
\* harvests and await Promise.allSettled
ContinueSearch ==
  /\ pc = "searching"
  /\ request.type = "SEARCH_AND_EXTRACT"
  /\ BothReturned(wiki, ddg)
  /\ IF SpreadThrows(wiki.val, ddg.val)
     THEN /\ thrown' = "TypeError"
          /\ replies' = replies \o OnHandlerError("TypeError").replies
          /\ uncaught' = OnHandlerError("TypeError").uncaught
          /\ pc' = "done"
          /\ UNCHANGED <<allUrls, urlsToOpen, att>>
     ELSE /\ allUrls' = Aggregate(wiki.val, ddg.val)
          /\ urlsToOpen' = UrlsToOpen(allUrls')
          /\ att' = StartAttempts(urlsToOpen')
          /\ pc' = "harvesting"
          /\ UNCHANGED <<replies, thrown, uncaught>>
  /\ UNCHANGED <<request, wiki, ddg, tabs, nextTabId, inflight, straySent, aggVars, sideVars>>

\* handleSearchOnly after Promise.all: aggregate, label, reply
ContinueSearchOnly ==
  /\ pc = "searching"
  /\ request.type = "SEARCH_ONLY"
  /\ BothReturned(wiki, ddg)
  /\ IF SpreadThrows(wiki.val, ddg.val)
     THEN /\ thrown' = "TypeError"
          /\ replies' = replies \o OnHandlerError("TypeError").replies
          /\ uncaught' = OnHandlerError("TypeError").uncaught
          /\ UNCHANGED allUrls
     ELSE /\ allUrls' = Aggregate(wiki.val, ddg.val)
          /\ IF MapThrows(allUrls')
             THEN /\ thrown' = "TypeError"
                  /\ replies' = replies \o OnHandlerError("TypeError").replies
                  /\ uncaught' = OnHandlerError("TypeError").uncaught
             ELSE /\ replies' = Append(replies, SearchOnlyReply(allUrls'))
                  /\ UNCHANGED <<thrown, uncaught>>
  /\ pc' = "done"
  /\ UNCHANGED <<request, wiki, ddg, urlsToOpen, att, tabs, nextTabId, inflight,
                 straySent, aggVars, sideVars>>

\* handleSearchRequest / handleExtractionRequest after Promise.allSettled:
\* collect the fulfilled values and reply
Finalize ==
  /\ pc = "harvesting"
  /\ AllSettled(att)
  /\ replies' = Append(replies,
                  IF request.type = "SEARCH_AND_EXTRACT"
                  THEN SearchReply(SettledSources(att))
                  ELSE ExtractReply(SettledSources(att)))
  /\ pc' = "done"
  /\ UNCHANGED <<request, wiki, ddg, allUrls, urlsToOpen, att, tabs, nextTabId,
                 inflight, straySent, thrown, uncaught, aggVars, sideVars>>

(***************************************************************************)
(* The two message listeners: dispatch on request.type, the id handed to   *)
(* the handler, and the reply each handler returns                         *)
(***************************************************************************)

ReqIds == {"r1", "r2"}

Channels == {"external", "internal"}

MsgTypes ==
  {"PING", "SEARCH_AND_EXTRACT", "SEARCH_ONLY", "EXTRACT_URLS", "FETCH_JSON",
   "CHAT_COMPLETIONS", "GET_RESULTS", "CHECK_UPDATES_MANUAL", "GET_API_STATS"}

\* values of request.searchId: callers identify a request by requestId
\* (spec 6, content script); searchId is absent unless the caller adds it
SearchIds == {"undefined", "s1"}

\* the branch a listener takes for request.type:
\*   "sync"   sendResponse is called inside the listener
\*   "async"  a handler is called and sendResponse is chained with .then
\*   "throws" the branch calls getStoredResults, which is defined nowhere
\*   "none"   no branch: the listener returns undefined
ListenerBranch(chan, type) ==
  IF chan = "external"
  THEN CASE type = "PING" -> "sync"
         [] type \in {"SEARCH_AND_EXTRACT", "SEARCH_ONLY", "EXTRACT_URLS",
                      "FETCH_JSON", "CHAT_COMPLETIONS"} -> "async"
         [] OTHER -> "none"
  ELSE CASE type = "GET_API_STATS" -> "sync"
         [] type = "GET_RESULTS" -> "throws"
         [] type \in {"SEARCH_AND_EXTRACT", "SEARCH_ONLY", "EXTRACT_URLS",
                      "FETCH_JSON", "CHECK_UPDATES_MANUAL"} -> "async"
         [] OTHER -> "none"

\* the second argument of the handler call: request.searchId in the
\* onMessageExternal listener, request.requestId in the onMessage listener
IdArgument(chan, requestId, searchId) ==
  IF chan = "external" THEN searchId ELSE requestId

NoReply == [success |-> FALSE, requestId |-> "undefined", searchId |-> "undefined"]

\* the object a handler resolves to, as far as success and the id fields go:
\* handleSearchRequest and handleSearchOnly return { success, searchId, ... },
\* handleExtractionRequest returns { success, requestId, ... }, the other
\* handlers return no id
HandlerReply(type, id, ok) ==
  CASE type \in {"SEARCH_AND_EXTRACT", "SEARCH_ONLY"} ->
         [NoReply EXCEPT !.success = ok, !.searchId = id]
    [] type = "EXTRACT_URLS" ->
         [NoReply EXCEPT !.success = ok, !.requestId = id]
    [] OTHER -> [NoReply EXCEPT !.success = ok]

NotSent ==
  [st |-> "none", chan |-> "none", type |-> "none", searchId |-> "undefined",
   replies |-> <<>>]

\* a listener receives request r: the whole listener call
Receive(r, chan, type, sid) ==
  /\ requests[r].st = "none"
  /\ LET b == ListenerBranch(chan, type)
     IN requests' = [requests EXCEPT ![r] =
                  [st |-> CASE b = "sync" -> "done"
                            [] b = "async" -> "awaiting"
                            [] b = "throws" -> "threw"
                            [] OTHER -> "ignored",
                   chan |-> chan, type |-> type, searchId |-> sid,
                   replies |-> IF b = "sync"
                               THEN <<[NoReply EXCEPT !.success = TRUE]>>
                               ELSE <<>>]]
  /\ UNCHANGED <<stored, runVars, aggVars, cleanVars, htmlVars,
                 permVars, timeVars, docVars, pageVars, apiVars>>

\* the handler's promise of request r is fulfilled (a handler never rejects:
\* its body is inside try/catch) and .then calls sendResponse; no handler
\* writes chrome.storage.local[STORAGE_KEY]
HandlerSettles(r, ok) ==
  /\ requests[r].st = "awaiting"
  /\ requests' = [requests EXCEPT ![r].st = "done",
                        ![r].replies =
                          Append(@, HandlerReply(requests[r].type,
                                                 IdArgument(requests[r].chan, r, requests[r].searchId),
                                                 ok))]
  /\ UNCHANGED <<stored, runVars, aggVars, cleanVars, htmlVars,
                 permVars, timeVars, docVars, pageVars, apiVars>>

(***************************************************************************)
(* Content script on the web app's page: the window message listener, the  *)
(* permission check and the forwarding to the background                   *)
(***************************************************************************)

WebReqIds == {"w1", "w2"}

\* message.type of a message with source 'edgeai-webapp'
WebTypes == {"PING", "SEARCH_REQUEST", "SEARCH_ONLY_REQUEST", "EXTRACT_URLS_REQUEST"}

Modes == {"ask", "permissive"}

ALLOWED_ORIGINS ==
  {<<"https://edge.inled.es">>, <<"http://localhost:4321">>,
   <<"https://localhost:4321">>, <<"https://hosted.inled.es">>}

\* window.location.origin of the pages the content script runs in
Origins ==
  {<<"https://edge.inled.es">>, <<"http://localhost:4321">>,
   <<"https://evil.example">>, <<"https://edge.inled.es", ".evil.example">>}

\* String.prototype.startsWith for a needle of several tokens
StartsWithSeq(s, p) == Len(p) <= Len(s) /\ SubSeq(s, 1, Len(p)) = p

\* isWebApp = ALLOWED_ORIGINS.some(origin => currentOrigin.startsWith(origin))
checkIfWebApp(currentOrigin) ==
  \E origin \in ALLOWED_ORIGINS : StartsWithSeq(currentOrigin, origin)

\* chrome.storage.local of a fresh installation
EmptyStorage ==
  [permissionMode |-> "undefined", language |-> "undefined",
   pendingUpdate |-> "undefined"]

Languages == {"en", "es"}

\* no content script yet: let permissionMode = 'ask'; let isWebApp = false
NotLoaded ==
  [loaded |-> FALSE, origin |-> <<>>, isWebApp |-> FALSE, read |-> "none",
   got |-> "undefined"]

NoCheck == [ret |-> "none", before |-> EmptyStorage, after |-> EmptyStorage]

NotPosted ==
  [type |-> "none", st |-> "none", mode |-> "none", asked |-> FALSE,
   confirmed |-> FALSE, posted |-> "none"]

\* checkPermission: true in permissive mode without a dialog, otherwise the
\* answer the user gives to confirm()
checkPermission(mode, answer) ==
  IF mode = "permissive"
  THEN [asked |-> FALSE, allowed |-> TRUE]
  ELSE [asked |-> TRUE, allowed |-> answer]

\* the handlers that await checkPermission before chrome.runtime.sendMessage
CallsCheckPermission(type) == type = "SEARCH_REQUEST"

\* the window message listener and the handler it calls, up to the point
\* where the request is forwarded (chrome.runtime.sendMessage), denied
\* (SEARCH_DENIED posted) or, for PING, answered (PONG posted); confirm()
\* blocks the page, so the dialog is part of the handler
HandleWebMessage(w, type, answer) ==
  /\ script.loaded
  /\ web[w].st = "none"
  /\ web' = [web EXCEPT ![w] =
       CASE type = "PING" ->
              [NotPosted EXCEPT !.type = type, !.mode = permissionMode,
                                !.st = "answered", !.posted = "PONG"]
         [] CallsCheckPermission(type) ->
              LET p == checkPermission(permissionMode, answer)
              IN [type |-> type, mode |-> permissionMode, asked |-> p.asked,
                  confirmed |-> p.asked /\ p.allowed,
                  st |-> IF p.allowed THEN "forwarded" ELSE "denied",
                  posted |-> IF p.allowed THEN "none" ELSE "SEARCH_DENIED"]
         [] OTHER ->
              [NotPosted EXCEPT !.type = type, !.mode = permissionMode,
                                !.st = "forwarded"]]
  /\ UNCHANGED <<permissionMode, pageVars, runVars, aggVars, msgVars,
                 cleanVars, htmlVars, timeVars, docVars, apiVars>>

\* the content script starts in a page: checkIfWebApp, which on the web app
\* calls establishConnection (chrome.storage.local.get is issued); the
\* window and runtime listeners are registered
PageLoads(origin) ==
  /\ ~script.loaded
  /\ script' = [loaded |-> TRUE, origin |-> origin,
              isWebApp |-> checkIfWebApp(origin),
              read |-> IF checkIfWebApp(origin) THEN "issued" ELSE "none",
              got |-> "undefined"]
  /\ UNCHANGED <<permissionMode, web, storage, notices, upd, runVars,
                 aggVars, msgVars, cleanVars, htmlVars, timeVars,
                 docVars, apiVars>>

\* the browser serves chrome.storage.local.get(['permissionMode'])
StorageAnswers ==
  /\ script.read = "issued"
  /\ script' = [script EXCEPT !.read = "answered", !.got = storage.permissionMode]
  /\ UNCHANGED <<permissionMode, web, storage, notices, upd, runVars,
                 aggVars, msgVars, cleanVars, htmlVars, timeVars,
                 docVars, apiVars>>

\* the callback of establishConnection:
\* permissionMode = result.permissionMode || 'ask'
ReadCallback ==
  /\ script.read = "answered"
  /\ permissionMode' = IF script.got = "undefined" THEN "ask" ELSE script.got
  /\ script' = [script EXCEPT !.read = "done"]
  /\ UNCHANGED <<web, storage, notices, upd, runVars, aggVars,
                 msgVars, cleanVars, htmlVars, timeVars, docVars,
                 apiVars>>

\* the popup's radio change handler: chrome.storage.local.set, then
\* chrome.tabs.sendMessage to every tab (a tab without content script
\* rejects, which is ignored)
PopupSaves(mode) ==
  /\ Len(notices) < MaxNotices
  /\ storage' = [storage EXCEPT !.permissionMode = mode]
  /\ notices' = IF script.loaded THEN Append(notices, mode) ELSE notices
  /\ UNCHANGED <<permissionMode, web, script, upd, runVars, aggVars,
                 msgVars, cleanVars, htmlVars, timeVars, docVars,
                 apiVars>>

\* the content script's onMessage listener: PERMISSION_MODE_CHANGED
PermissionModeChanged(mode) ==
  /\ notices # <<>>
  /\ mode = Head(notices)
  /\ notices' = Tail(notices)
  /\ permissionMode' = mode
  /\ UNCHANGED <<web, storage, script, upd, runVars, aggVars,
                 msgVars, cleanVars, htmlVars, timeVars, docVars,
                 apiVars>>

(***************************************************************************)
(* chrome.storage.local: the popup's language setting and the background's *)
(* update check                                                            *)
(***************************************************************************)

\* the popup's setLanguage: chrome.storage.local.set({ language: lang })
SetLanguage(lang) ==
  /\ storage' = [storage EXCEPT !.language = lang]
  /\ UNCHANGED <<script, notices, upd, permVars, runVars, aggVars,
                 msgVars, cleanVars, htmlVars, timeVars, docVars,
                 apiVars>>

\* what the update server answers: the fetch rejects, the status is not ok,
\* the body is not a JSON list, no entry matches this version, one does
UpdateAnswers == {"neterr", "notok", "badjson", "nomatch", "match"}

\* chrome.storage.local after the try / catch around
\* chrome.storage.local.set({ pendingUpdate }): setOk says whether the first
\* set resolves; if it rejects the storage is cleared and set is called
\* again, retryOk says whether that one resolves
StorePendingUpdate(s, setOk, retryOk) ==
  IF setOk
  THEN [s EXCEPT !.pendingUpdate = "set"]
  ELSE IF retryOk
       THEN [EmptyStorage EXCEPT !.pendingUpdate = "set"]
       ELSE EmptyStorage

\* checkForUpdates, from the call to the value its promise resolves with
CheckForUpdates(answer, setOk, retryOk) ==
  /\ storage' = IF answer = "match"
                THEN StorePendingUpdate(storage, setOk, retryOk)
                ELSE storage
  /\ upd' = [ret |-> IF answer = "match" /\ (setOk \/ retryOk)
                     THEN "true" ELSE "false",
             before |-> storage, after |-> storage']
  /\ UNCHANGED <<script, notices, permVars, runVars, aggVars,
                 msgVars, cleanVars, htmlVars, timeVars, docVars,
                 apiVars>>

(***************************************************************************)
(* The Date.now() readings of a SEARCH_AND_EXTRACT run: extractedAt in the *)
(* harvest listener, timestamp in handleSearchRequest                      *)
(***************************************************************************)

NoTime == [t |-> "undefined", v |-> 0]

Time(n) == [t |-> "number", v |-> n]

NoResult == [timestamp |-> NoTime, completedAt |-> NoTime, status |-> "none"]

RunIdle == [pc |-> "idle", extractedAt |-> <<>>, result |-> NoResult]

\* time passes
Tick ==
  /\ clock < MaxClock
  /\ clock' = clock + 1
  /\ UNCHANGED <<run, runVars, aggVars, msgVars, cleanVars, htmlVars,
                 permVars, docVars, pageVars, apiVars>>

\* handleSearchRequest is called and, once the adapters have returned,
\* starts its harvest attempts: no Date.now() is read
RunStarts ==
  /\ run.pc = "idle"
  /\ run' = [run EXCEPT !.pc = "harvesting"]
  /\ UNCHANGED <<clock, runVars, aggVars, msgVars, cleanVars,
                 htmlVars, permVars, docVars, pageVars, apiVars>>

\* the listener of one attempt resolves with extractedAt: Date.now()
SourceExtracted ==
  /\ run.pc = "harvesting"
  /\ Len(run.extractedAt) < MAX_PAGES_PER_SEARCH
  /\ run' = [run EXCEPT !.extractedAt = Append(@, clock)]
  /\ UNCHANGED <<clock, runVars, aggVars, msgVars, cleanVars,
                 htmlVars, permVars, docVars, pageVars, apiVars>>

\* after Promise.allSettled:
\* searchResults = { searchId, query, timestamp: Date.now(), sources,
\*                   status: 'completed' }
RunFinalizes ==
  /\ run.pc = "harvesting"
  /\ run' = [run EXCEPT !.pc = "done",
                        !.result = [NoResult EXCEPT !.timestamp = Time(clock),
                                                    !.status = "completed"]]
  /\ UNCHANGED <<clock, runVars, aggVars, msgVars, cleanVars,
                 htmlVars, permVars, docVars, pageVars, apiVars>>

(***************************************************************************)
(* The content script's choice of the main content (extractMainContent).   *)
(* Of a text only its length decides, so an element is modelled by the     *)
(* length of what extractTextFromElement returns for it.                   *)
(***************************************************************************)

mainSelectors ==
  <<"main", "article", "[role=main]", ".main-content", "#main-content",
    "#content", ".content", ".article-content", ".post-content">>

\* document.querySelector found nothing
NoElement == [t |-> "null", len |-> 0]

Element(n) == [t |-> "element", len |-> n]

\* text lengths around the threshold of strategy 1
Lengths == {499, 500, 501}

Elements == {NoElement} \cup {Element(n) : n \in Lengths}

\* a document: the element of each selector, whether the hostname includes
\* 'wikipedia.org', the element #mw-content-text, and the text of the body
\* clone once the removeSelectors elements are taken out
Documents ==
  [els : [1..Len(mainSelectors) -> Elements], wikiHost : BOOLEAN,
   mw : Elements, body : Lengths]

NoDocument ==
  [els |-> [i \in 1..Len(mainSelectors) |-> NoElement], wikiHost |-> FALSE,
   mw |-> NoElement, body |-> 499]

Content(from, n) == [from |-> from, len |-> n]

\* if (element) { content = extractTextFromElement(element);
\*                if (content.length > 500) return content; }
LongEnough(el) == el.t = "element" /\ el.len > 500

extractMainContent(doc) ==
  LET hits == {i \in 1..Len(mainSelectors) : LongEnough(doc.els[i])}
  IN IF hits # {}
     THEN LET i == CHOOSE j \in hits : \A k \in hits : j <= k
          IN Content(mainSelectors[i], doc.els[i].len)
     ELSE IF doc.wikiHost /\ doc.mw.t = "element"
          THEN Content("#mw-content-text", doc.mw.len)
          ELSE Content("body", doc.body)

InitDocIdle ==
  /\ docIn = NoDocument
  /\ docOut = extractMainContent(NoDocument)
  /\ docPc = "in"

InitPageIdle ==
  /\ storage = EmptyStorage
  /\ script = NotLoaded
  /\ notices = <<>>
  /\ upd = NoCheck

(***************************************************************************)
(* The external listener's API proxy: CHAT_COMPLETIONS                     *)
(* (handleInboundApiRequest) and FETCH_JSON, with apiStats.  lastUsed      *)
(* (Date.now()) is left out.                                               *)
(***************************************************************************)

ApiReqIds == {"a1", "a2"}

FetchIds == {"f1", "f2"}

\* ids of the tabs that send messages to the background; both show the
\* Edge AI web app
ApiTabs == {10, 11}

\* results of chrome.tabs.query({ url: [...] })
TabLists == {<<>>, <<10>>, <<11>>, <<10, 11>>}

ApiMsgTypes == {"OPENAI_API_RESPONSE", "OPENAI_API_ERROR", "OPENAI_API_CHUNK"}

NoEvent == [kind |-> "none", tab |-> 0, rid |-> "none", type |-> "none"]

MessageEvent(tab, rid, type) ==
  [kind |-> "message", tab |-> tab, rid |-> rid, type |-> type]

\* st: "none" not received, "query" awaiting chrome.tabs.query, "waiting"
\* for the tab's answer, "resolved"; by: the event that resolved it;
\* responses: the calls of sendResponse
ApiIdle ==
  [st |-> "none", target |-> 0, listening |-> FALSE, timer |-> "none",
   value |-> "none", by |-> NoEvent, responses |-> 0]

NoStats ==
  [inbound |-> [active |-> FALSE, totalRequests |-> 0],
   outbound |-> [active |-> FALSE, totalRequests |-> 0]]

\* the promise of handleInboundApiRequest resolves, and the .then callback
\* of the external listener calls sendResponse; a resolved promise stays
ApiResolve(r, value, ev) ==
  IF r.st # "resolved"
  THEN [r EXCEPT !.st = "resolved", !.value = value, !.by = ev,
                 !.responses = @ + 1]
  ELSE r

\* a listener that does not compare message.requestId
ApiListenerAnyRequest(r, id, ev) ==
  r.listening /\ ev.tab = r.target

\* sender.tab && sender.tab.id === targetTabId
\*   && message.requestId === requestId
ApiListenerMatches(r, id, ev) ==
  r.listening /\ ev.tab = r.target /\ ev.rid = id

\* the body of the temporary listener for a matching message
OnApiMessage(r, ev) ==
  CASE ev.type = "OPENAI_API_RESPONSE" ->
         ApiResolve([r EXCEPT !.listening = FALSE], "data", ev)
    [] ev.type = "OPENAI_API_ERROR" ->
         ApiResolve([r EXCEPT !.listening = FALSE], "error", ev)
    [] OTHER -> r

\* apiStats.inbound.active = false in the .then callback of every request
\* that the step resolved
StatsAfter(stats, old, new) ==
  IF \E a \in ApiReqIds : old[a].st # "resolved" /\ new[a].st = "resolved"
  THEN [stats EXCEPT !.inbound.active = FALSE]
  ELSE stats

\* the external listener receives CHAT_COMPLETIONS: the statistics are
\* updated and handleInboundApiRequest runs up to await chrome.tabs.query
ChatCompletions(a) ==
  /\ api[a].st = "none"
  /\ api' = [api EXCEPT ![a].st = "query"]
  /\ apiStats' = [apiStats EXCEPT !.inbound.active = TRUE,
                                  !.inbound.totalRequests = @ + 1]
  /\ UNCHANGED <<fetches, runVars, aggVars, msgVars, cleanVars, htmlVars,
                 permVars, timeVars, docVars, pageVars>>

\* chrome.tabs.query resolves: without a tab the handler throws and its
\* catch returns { success: false }; otherwise the listener is registered,
\* the request is sent to tabs[0] and the 120000 ms timer is armed
QueryReturns(a, found) ==
  /\ api[a].st = "query"
  /\ api' = [api EXCEPT ![a] =
       IF found = <<>>
       THEN ApiResolve(@, "notab", [NoEvent EXCEPT !.kind = "notab"])
       ELSE [@ EXCEPT !.st = "waiting", !.target = found[1],
                      !.listening = TRUE, !.timer = "armed"]]
  /\ apiStats' = StatsAfter(apiStats, api, api')
  /\ UNCHANGED <<fetches, runVars, aggVars, msgVars, cleanVars, htmlVars,
                 permVars, timeVars, docVars, pageVars>>

\* chrome.runtime.onMessage dispatches a message a tab has sent to every
\* registered temporary listener
ApiMessage(tab, rid, type) ==
  /\ api' = [a \in ApiReqIds |->
               IF ApiListenerMatches(api[a], a, MessageEvent(tab, rid, type))
               THEN OnApiMessage(api[a], MessageEvent(tab, rid, type))
               ELSE api[a]]
  /\ apiStats' = StatsAfter(apiStats, api, api')
  /\ UNCHANGED <<fetches, runVars, aggVars, msgVars, cleanVars, htmlVars,
                 permVars, timeVars, docVars, pageVars>>

\* the setTimeout callback: removeListener, resolve 'Request timeout'
ApiTimeout(a) ==
  /\ api[a].timer = "armed"
  /\ api' = [api EXCEPT ![a] =
       ApiResolve([@ EXCEPT !.timer = "fired", !.listening = FALSE],
                  "timeout", [NoEvent EXCEPT !.kind = "timeout"])]
  /\ apiStats' = StatsAfter(apiStats, api, api')
  /\ UNCHANGED <<fetches, runVars, aggVars, msgVars, cleanVars, htmlVars,
                 permVars, timeVars, docVars, pageVars>>

\* the external listener receives FETCH_JSON
FetchJson(f) ==
  /\ fetches[f] = "none"
  /\ fetches' = [fetches EXCEPT ![f] = "inflight"]
  /\ apiStats' = [apiStats EXCEPT !.outbound.active = TRUE,
                                  !.outbound.totalRequests = @ + 1]
  /\ UNCHANGED <<api, runVars, aggVars, msgVars, cleanVars, htmlVars,
                 permVars, timeVars, docVars, pageVars>>

\* handleFetchJson resolves: the .then callback of the external listener
FetchSettles(f) ==
  /\ fetches[f] = "inflight"
  /\ fetches' = [fetches EXCEPT ![f] = "done"]
  /\ apiStats' = [apiStats EXCEPT !.outbound.active = FALSE]
  /\ UNCHANGED <<api, runVars, aggVars, msgVars, cleanVars, htmlVars,
                 permVars, timeVars, docVars, pageVars>>

InitApiIdle ==
  /\ apiStats = NoStats
  /\ api = [a \in ApiReqIds |-> ApiIdle]
  /\ fetches = [f \in FetchIds |-> "none"]

(***************************************************************************)
(* Specification of one request and its harvests                           *)
(***************************************************************************)

InitRun ==
  /\ pc = "idle"
  /\ request = [type |-> "none", urls |-> JsUndefined]
  /\ wiki = Idle
  /\ ddg = Idle
  /\ allUrls = <<>>
  /\ urlsToOpen = <<>>
  /\ att = <<>>
  /\ tabs = UserTabs
  /\ nextTabId = 2
  /\ inflight = {}
  /\ straySent = {}
  /\ replies = <<>>
  /\ thrown = "none"
  /\ uncaught = FALSE

InitAggIdle ==
  /\ aggA = <<>>
  /\ aggB = <<>>
  /\ aggOut = <<>>
  /\ aggPc = "in"

InitMsgIdle ==
  /\ requests = [r \in ReqIds |-> NotSent]
  /\ stored = {}

NoExtraction ==
  [data |-> extractPageContent(Page(<<>>, TRUE, <<>>)), again |-> <<>>,
   source |-> NoValue]

InitCleanIdle ==
  /\ clIn = Page(<<>>, TRUE, <<>>)
  /\ clOut = NoExtraction
  /\ clPc = "in"

InitHtmlIdle ==
  /\ htmlIn = <<>>
  /\ htmlOut = JsList(<<>>)
  /\ htmlPc = "in"

InitPerm ==
  /\ permissionMode = "ask"
  /\ web = [w \in WebReqIds |-> NotPosted]

InitTime ==
  /\ clock = 0
  /\ run = RunIdle

Init ==
  /\ InitRun
  /\ InitAggIdle
  /\ InitMsgIdle
  /\ InitCleanIdle
  /\ InitHtmlIdle
  /\ InitPerm
  /\ InitTime
  /\ InitDocIdle
  /\ InitPageIdle
  /\ InitApiIdle

Next ==
  \/ \E urls \in ExtractInputs : ReceiveExtract(urls)
  \/ \E type \in RequestTypes : ReceiveSearch(type)
  \/ \E resp \in WikiResponses : WikiReturns(resp)
  \/ \E resp \in DdgResponses : DdgReturns(resp)
  \/ ContinueSearch
  \/ ContinueSearchOnly
  \/ Finalize
  \/ \E i \in 1..Len(att) : TabCreated(i)
  \/ \E i \in 1..Len(att) : CreateFails(i)
  \/ \E i \in 1..Len(att) : TimerFires(i)
  \/ \E i \in 1..Len(att) : TabSends(i)
  \/ \E t \in UserTabs : StraySends(t)
  \/ \E msg \in inflight : Deliver(msg)

Spec == Init /\ [][Next]_vars

\* the attempts a request can start
AttemptIds ==
  1..(IF MaxExtractLen > MAX_PAGES_PER_SEARCH THEN MaxExtractLen
      ELSE MAX_PAGES_PER_SEARCH)

\* an armed timer that is not cleared fires, and the continuation after
\* Promise.allSettled runs once every attempt has settled; nothing is
\* assumed about tabs (creation may hang, a page may never signal)
Fairness ==
  /\ \A i \in AttemptIds : WF_vars(TimerFires(i))
  /\ WF_vars(Finalize)

SpecLive == Spec /\ Fairness

(***************************************************************************)
(* Specification of the URL Aggregator alone, over all candidate           *)
(* sequences of bounded length                                             *)
(***************************************************************************)

AggUrls == {WikiA, SiteC, SiteD}

AggSeqs == UNION {[1..n -> AggUrls] : n \in 0..MaxSeqLen}

InitAgg ==
  /\ InitRun
  /\ InitMsgIdle
  /\ InitCleanIdle
  /\ InitHtmlIdle
  /\ InitPerm
  /\ InitTime
  /\ InitDocIdle
  /\ InitPageIdle
  /\ InitApiIdle
  /\ aggA \in AggSeqs
  /\ aggB \in AggSeqs
  /\ aggOut = <<>>
  /\ aggPc = "in"

\* allUrls = [...new Set([...wikipediaUrls, ...duckduckgoUrls])]
Merge ==
  /\ aggPc = "in"
  /\ aggOut' = Aggregate(JsList(aggA), JsList(aggB))
  /\ aggPc' = "out"
  /\ UNCHANGED <<aggA, aggB, runVars, sideVars>>

NextAgg == Merge

SpecAgg == InitAgg /\ [][NextAgg]_vars

(***************************************************************************)
(* Specification of the listeners: two requests of any type on any channel *)
(***************************************************************************)

NextMsg ==
  \/ \E r \in ReqIds, chan \in Channels, type \in MsgTypes, sid \in SearchIds :
       Receive(r, chan, type, sid)
  \/ \E r \in ReqIds, ok \in BOOLEAN : HandlerSettles(r, ok)

SpecMsg == Init /\ [][NextMsg]_vars

(***************************************************************************)
(* Specification of the content script on the web app's page               *)
(***************************************************************************)

NextPerm ==
  \/ \E w \in WebReqIds, type \in WebTypes, answer \in BOOLEAN :
       HandleWebMessage(w, type, answer)
  \/ \E mode \in Modes : PermissionModeChanged(mode)
  \/ \E origin \in Origins : PageLoads(origin)
  \/ StorageAnswers
  \/ ReadCallback
  \/ \E mode \in Modes : PopupSaves(mode)

SpecPerm == Init /\ [][NextPerm]_vars

(***************************************************************************)
(* Specification of the Date.now() readings of one run                     *)
(***************************************************************************)

NextTime ==
  \/ Tick
  \/ RunStarts
  \/ SourceExtracted
  \/ RunFinalizes

SpecTime == Init /\ [][NextTime]_vars

(***************************************************************************)
(* Specification of the Text Extractor alone, over all texts of bounded    *)
(* length                                                                  *)
(***************************************************************************)

Texts == UNION {[1..n -> Chars] : n \in 0..MaxTextLen}

InitClean ==
  /\ InitRun
  /\ InitAggIdle
  /\ InitMsgIdle
  /\ InitHtmlIdle
  /\ InitPerm
  /\ InitTime
  /\ InitDocIdle
  /\ InitPageIdle
  /\ InitApiIdle
  /\ clIn \in {Page(<<"T">>, FALSE, t) : t \in Texts} \cup {Page(<<>>, TRUE, <<>>)}
  /\ clOut = NoExtraction
  /\ clPc = "in"

\* the content script extracts the page and sends the signal; the harvest
\* listener builds the source record; the cleaned text is cleaned again
Extract ==
  /\ clPc = "in"
  /\ clOut' = [data |-> extractPageContent(clIn),
               again |-> cleanText(extractPageContent(clIn).content),
               source |-> Extracted(SiteC, extractPageContent(clIn))]
  /\ clPc' = "out"
  /\ UNCHANGED <<clIn, runVars, aggVars, msgVars, htmlVars, permVars,
                 timeVars, docVars, pageVars, apiVars>>

NextClean == Extract

SpecClean == InitClean /\ [][NextClean]_vars

(***************************************************************************)
(* Specification of Adapter B's parse alone, over all bodies of bounded    *)
(* length                                                                  *)
(***************************************************************************)

HtmlItems ==
  {Uddg(Encode(WikiA)), Uddg(Encode(SiteC)), Uddg(Encode(SiteD)),
   Uddg(Encode(SiteE)), Uddg(Encode(DdgSelf)), Uddg(Encode(FtpF)),
   Uddg(<<"http", MalformedTok>>), Anchor(SiteC), Anchor(SiteD),
   Anchor(DdgSelf)}

HtmlBodies == UNION {[1..n -> HtmlItems] : n \in 0..MaxHtmlLen}

InitHtml ==
  /\ InitRun
  /\ InitAggIdle
  /\ InitMsgIdle
  /\ InitCleanIdle
  /\ InitPerm
  /\ InitTime
  /\ InitDocIdle
  /\ InitPageIdle
  /\ InitApiIdle
  /\ htmlIn \in HtmlBodies
  /\ htmlOut = JsList(<<>>)
  /\ htmlPc = "in"

\* searchDuckDuckGo on a successful response with body htmlIn
Parse ==
  /\ htmlPc = "in"
  /\ htmlOut' = searchDuckDuckGo(DdgResponse("ok", htmlIn))
  /\ htmlPc' = "out"
  /\ UNCHANGED <<htmlIn, runVars, aggVars, msgVars, cleanVars,
                 permVars, timeVars, docVars, pageVars, apiVars>>

NextHtml == Parse

SpecHtml == InitHtml /\ [][NextHtml]_vars

(***************************************************************************)
(* Properties                                                              *)
(***************************************************************************)

Range(s) == {s[i] : i \in 1..Len(s)}

Rejected(a) == {i \in 1..Len(a) : a[i].promise = "rejected"}

Distinct(s) == \A i, j \in 1..Len(s) : i # j => s[i] # s[j]

FirstIndex(s, x) == CHOOSE i \in 1..Len(s) : s[i] = x /\ \A j \in 1..(i - 1) : s[j] # x

SourceUrls(r) == [i \in 1..Len(r.sources) |-> r.sources[i].url]

\* C1: every harvest attempt that has settled and whose tab was created has
\* issued exactly one chrome.tabs.remove for it and its tab is closed (no
\* tab of the attempt stays open on the success, timeout or error path).
C1_OneTabOneDiscard ==
  \A i \in 1..Len(att) :
    (att[i].promise # "pending" /\ att[i].create = "created")
      => (att[i].removes = 1 /\ att[i].tabId \notin tabs)

\* C2: a SEARCH_AND_EXTRACT run of which k >= 1 of the N harvests failed
\* replies once, success:true, status 'completed', with exactly N - k
\* sources and resultCount N - k.
C2_PartialFailure ==
  (pc = "done" /\ request.type = "SEARCH_AND_EXTRACT"
     /\ Cardinality(Rejected(att)) >= 1)
    => /\ Len(replies) = 1
       /\ replies[1].success
       /\ replies[1].status = "completed"
       /\ Len(att) = Len(urlsToOpen)
       /\ Len(replies[1].sources) = Len(att) - Cardinality(Rejected(att))
       /\ replies[1].resultCount = Len(att) - Cardinality(Rejected(att))

C2_Witness ==
  /\ pc = "done"
  /\ request.type = "SEARCH_AND_EXTRACT"
  /\ Len(att) = 3
  /\ \E i, j \in Rejected(att) : att[i].cause = "timeout" /\ att[j].cause = "error"
  /\ Len(replies) = 1
  /\ Len(replies[1].sources) = 1

\* C3: all-settle barrier: once a reply has been sent, no harvest attempt
\* of the run is pending; a first success alone does not finalize the run.
C3_AllSettleBarrier ==
  replies # <<>> => \A i \in 1..Len(att) : att[i].promise # "pending"

C3_Witness ==
  /\ replies # <<>>
  /\ Len(att) >= 2
  /\ att[1].promise = "fulfilled"
  /\ att[Len(att)].promise = "rejected"
  /\ att[Len(att)].cause = "timeout"

\* C4: the two adapters are started together; in a SEARCH_AND_EXTRACT run
\* nothing is aggregated, no harvest is started and no tab is opened until
\* both adapters have returned, and the aggregated list holds every URL of
\* both results.
C4_AdaptersBothAwaited ==
  /\ (wiki.st = "idle") <=> (ddg.st = "idle")
  /\ (request.type \in {"SEARCH_AND_EXTRACT", "SEARCH_ONLY"}
        /\ (pc \in {"harvesting", "done"} \/ allUrls # <<>> \/ att # <<>>
              \/ nextTabId > 2))
       => (wiki.st = "done" /\ ddg.st = "done")
  /\ (request.type = "SEARCH_AND_EXTRACT" /\ pc \in {"harvesting", "done"}
        /\ thrown = "none")
       => (Range(wiki.val.v) \cup Range(ddg.val.v)) \subseteq Range(allUrls)

C4_Witness ==
  /\ request.type = "SEARCH_AND_EXTRACT"
  /\ pc = "harvesting"
  /\ wiki.val.v # <<>>
  /\ ddg.val.v # <<>>
  /\ nextTabId > 2

\* C5: the merged sequence is the stable deduplication of A followed by B:
\* it holds exactly the URLs of A and B, each once, ordered by their first
\* occurrence in the concatenation.
C5_StableDedup ==
  aggPc = "out" =>
    LET c == aggA \o aggB
    IN /\ Range(aggOut) = Range(c)
       /\ Distinct(aggOut)
       /\ \A i, j \in 1..Len(aggOut) :
            i < j => FirstIndex(c, aggOut[i]) < FirstIndex(c, aggOut[j])
       /\ \A i \in 1..Len(aggOut) :
            i = Cardinality({c[k] : k \in 1..FirstIndex(c, aggOut[i])})

C5_Witness ==
  /\ aggPc = "out"
  /\ Len(aggA) >= 2
  /\ Range(aggA) \cap Range(aggB) # {}
  /\ aggB[1] = aggA[2]
  /\ Len(aggOut) = 3

\* C6: in a SEARCH_AND_EXTRACT run the harvested list is the first
\* MAX_PAGES_PER_SEARCH entries of the deduplicated sequence, so at most 3
\* harvests are started, at most 3 tabs are opened and sources has at most
\* 3 entries.
C6_Budget ==
  request.type = "SEARCH_AND_EXTRACT" =>
    /\ Len(urlsToOpen) <= MAX_PAGES_PER_SEARCH
    /\ Len(urlsToOpen) <= Len(allUrls)
    /\ (Len(allUrls) >= MAX_PAGES_PER_SEARCH /\ pc \in {"harvesting", "done"})
         => Len(urlsToOpen) = MAX_PAGES_PER_SEARCH
    /\ \A i \in 1..Len(urlsToOpen) : urlsToOpen[i] = allUrls[i]
    /\ Len(att) <= MAX_PAGES_PER_SEARCH
    /\ nextTabId - 2 <= MAX_PAGES_PER_SEARCH
    /\ Cardinality(tabs \ UserTabs) <= MAX_PAGES_PER_SEARCH
    /\ \A k \in 1..Len(replies) : Len(replies[k].sources) <= MAX_PAGES_PER_SEARCH

C6_Witness ==
  /\ request.type = "SEARCH_AND_EXTRACT"
  /\ Len(allUrls) > MAX_PAGES_PER_SEARCH
  /\ Len(replies) = 1
  /\ Len(replies[1].sources) = MAX_PAGES_PER_SEARCH

\* C7: in a SEARCH_AND_EXTRACT run the harvester is invoked exactly once
\* per URL of the deduplicated, truncated list, and the URLs of sources are
\* pairwise distinct members of that list.
C7_SourcesDistinctSubset ==
  (request.type = "SEARCH_AND_EXTRACT" /\ pc \in {"harvesting", "done"}
     /\ thrown = "none")
    => /\ Distinct(urlsToOpen)
       /\ Range(urlsToOpen) \subseteq Range(wiki.val.v) \cup Range(ddg.val.v)
       /\ Len(att) = Len(urlsToOpen)
       /\ \A i \in 1..Len(att) : att[i].url = urlsToOpen[i]
       /\ \A k \in 1..Len(replies) :
            /\ Distinct(SourceUrls(replies[k]))
            /\ Range(SourceUrls(replies[k])) \subseteq Range(urlsToOpen)

C7_Witness ==
  /\ request.type = "SEARCH_AND_EXTRACT"
  /\ Range(wiki.val.v) \cap Range(ddg.val.v) # {}
  /\ Len(replies) = 1
  /\ Len(replies[1].sources) >= 2

\* C8: a SEARCH_AND_EXTRACT run that ends with no source (both adapters
\* returned empty sequences, or every harvest failed) replies success:true,
\* resultCount 0, empty sources, status 'completed'.
C8_ZeroSources ==
  (request.type = "SEARCH_AND_EXTRACT" /\ pc = "done"
     /\ \/ (wiki.val = JsList(<<>>) /\ ddg.val = JsList(<<>>))
        \/ (Len(att) >= 1 /\ \A i \in 1..Len(att) : att[i].promise = "rejected"))
    => /\ Len(replies) = 1
       /\ replies[1].success
       /\ replies[1].resultCount = 0
       /\ replies[1].sources = <<>>
       /\ replies[1].status = "completed"

C8_Witness ==
  /\ request.type = "SEARCH_AND_EXTRACT"
  /\ pc = "done"
  /\ Len(att) >= 2
  /\ \A i \in 1..Len(att) : att[i].promise = "rejected"
  /\ replies[1].success

\* C9: each adapter yields a sequence of URLs whatever its backend answers,
\* and no backend answer makes a SEARCH_AND_EXTRACT or SEARCH_ONLY run
\* reply success:false.
C9_AdaptersContained ==
  (pc = "done" /\ request.type \in {"SEARCH_AND_EXTRACT", "SEARCH_ONLY"})
    => /\ wiki.val.t = "list"
       /\ ddg.val.t = "list"
       /\ Len(replies) = 1
       /\ replies[1].success

\* C10: an exception raised inside a handler is reported as one reply
\* {success:false, error}; nothing is raised out of the handler, every
\* finished handler has replied, and a run that failed opened no tab.  An
\* EXTRACT_URLS request without a urls list is such a failure.
C10_FailureReply ==
  /\ ~uncaught
  /\ pc = "done" => Len(replies) = 1
  /\ thrown # "none"
       => /\ pc = "done"
          /\ ~replies[1].success
          /\ replies[1].error = thrown
          /\ replies[1].sources = <<>>
          /\ att = <<>>
          /\ tabs = UserTabs
          /\ nextTabId = 2
  /\ (request.type = "EXTRACT_URLS" /\ request.urls.t # "list")
       => (thrown # "none" /\ ~replies[1].success)

C10_Witness ==
  /\ request.type = "EXTRACT_URLS"
  /\ request.urls = JsUndefined
  /\ pc = "done"
  /\ Len(replies) = 1
  /\ ~replies[1].success
  /\ replies[1].error = "TypeError"

(***************************************************************************)
(* Properties of the listeners                                             *)
(***************************************************************************)

AcceptedTypes ==
  {"PING", "SEARCH_AND_EXTRACT", "SEARCH_ONLY", "EXTRACT_URLS", "FETCH_JSON",
   "CHAT_COMPLETIONS", "GET_RESULTS", "CHECK_UPDATES_MANUAL"}

OrchestratorTypes == {"SEARCH_AND_EXTRACT", "SEARCH_ONLY", "EXTRACT_URLS"}

\* the listener call of request r is over and no handler of r is pending
Handled(r) == requests[r].st \in {"done", "threw", "ignored"}

\* C11: every request of an accepted type receives exactly one reply, on the
\* external channel and on the internal channel alike, once its handler has
\* settled (no request is answered twice, none is left unanswered).
C11_ExactlyOneReply ==
  \A r \in ReqIds :
    (Handled(r) /\ requests[r].type \in AcceptedTypes)
      => Len(requests[r].replies) = 1

\* C12: the reply to an orchestrator request carries, in its requestId
\* field, the requestId of that request, on both channels.
C12_ReplyCarriesRequestId ==
  \A r \in ReqIds :
    (requests[r].type \in OrchestratorTypes /\ Len(requests[r].replies) > 0)
      => requests[r].replies[1].requestId = r

\* C20: the result of a completed SEARCH_AND_EXTRACT run is stored under its
\* id, so that a later GET_RESULTS can retrieve it until it expires.
C20_CompletedRunStored ==
  \A r \in ReqIds :
    (/\ requests[r].type = "SEARCH_AND_EXTRACT"
     /\ requests[r].st = "done"
     /\ requests[r].replies[1].success)
      => r \in stored

(***************************************************************************)
(* Properties of the Text Extractor                                        *)
(***************************************************************************)

\* the number of maximal runs of non-whitespace characters of s
TokenCount(s) ==
  Cardinality({i \in 1..Len(s) : ~IsWs(s[i]) /\ (i = 1 \/ IsWs(s[i - 1]))})

\* C15: cleaning is idempotent: cleaning the cleaned text of any page gives
\* the cleaned text again, also for texts with control characters next to
\* whitespace.
C15_CleanIdempotent ==
  (clPc = "out" /\ ~clIn.throws) => clOut.again = clOut.data.content

AcceptableUddg(it) ==
  /\ it.k = "uddg"
  /\ ~DecodeThrows(it.raw)
  /\ StartsWith(decodeURIComponent(it.raw), "http")
  /\ ~Includes(decodeURIComponent(it.raw), "duckduckgo.com")

ExternalAnchor(it) ==
  /\ it.k = "anchor"
  /\ StartsWith(it.raw, "http")
  /\ ~Includes(it.raw, "duckduckgo.com")

\* C17: when the body holds no acceptable uddg= parameter, Adapter B falls
\* back to the external anchor hrefs: a body without acceptable uddg= but
\* with external anchors yields a non-empty result of at most 3 URLs.
C17_AnchorFallback ==
  (/\ htmlPc = "out"
   /\ \A i \in 1..Len(htmlIn) : ~AcceptableUddg(htmlIn[i])
   /\ \E i \in 1..Len(htmlIn) : ExternalAnchor(htmlIn[i]))
    => (Len(htmlOut.v) > 0 /\ Len(htmlOut.v) <= 3)

(***************************************************************************)
(* Properties of the discovery-only entry point                            *)
(***************************************************************************)

SearchOnlyReplied ==
  /\ request.type = "SEARCH_ONLY"
  /\ pc = "done"
  /\ Len(replies) = 1
  /\ replies[1].success

FromAdapterA(url) == wiki.val.t = "list" /\ url \in Range(wiki.val.v)

\* C18: the URL list of a SEARCH_ONLY reply is deduplicated and truncated
\* to the page budget of 3, and its resultCount is at most 3.
C18_SearchOnlyBudget ==
  SearchOnlyReplied
    => /\ Distinct(replies[1].results)
       /\ Len(replies[1].results) <= MAX_PAGES_PER_SEARCH
       /\ replies[1].resultCount <= MAX_PAGES_PER_SEARCH

\* C19: a SEARCH_ONLY reply labels each URL with the adapter that first
\* produced it: 'wikipedia' for a URL returned by Adapter A, 'duckduckgo'
\* for a URL returned by Adapter B only.
C19_ProvenanceLabel ==
  SearchOnlyReplied
    => \A i \in 1..Len(replies[1].results) :
         replies[1].results[i].source =
           IF FromAdapterA(replies[1].results[i].url)
           THEN "wikipedia" ELSE "duckduckgo"

(***************************************************************************)
(* Properties of the harvest timers                                        *)
(***************************************************************************)

\* the tab of attempt i was created and its page has sent no signal
Silent(i) == att[i].create = "created" /\ ~att[i].sent

\* C13: an attempt whose tab never signals settles only as a timeout
\* failure, its URL is absent from the sources of the reply, a
\* SEARCH_AND_EXTRACT run still replies 'completed', and every run that
\* started harvesting eventually replies: no run waits forever.
C13_SilentTabTimesOut ==
  /\ [](\A i \in 1..Len(att) :
          (Silent(i) /\ att[i].promise # "pending")
            => /\ att[i].promise = "rejected"
               /\ att[i].cause = "timeout"
               /\ att[i].timer = "fired"
               /\ pc = "done"
                    => /\ Len(replies) = 1
                       /\ replies[1].success
                       /\ att[i].url \notin Range(SourceUrls(replies[1]))
                       /\ request.type = "SEARCH_AND_EXTRACT"
                            => replies[1].status = "completed")
  /\ (pc = "harvesting") ~> (pc = "done" /\ Len(replies) = 1)

C13_Witness ==
  /\ request.type = "SEARCH_AND_EXTRACT"
  /\ pc = "done"
  /\ Len(att) = 2
  /\ Silent(1)
  /\ att[1].cause = "timeout"
  /\ att[2].promise = "fulfilled"
  /\ replies[1].status = "completed"
  /\ Len(replies[1].sources) = 1
  /\ att[1].url \notin Range(SourceUrls(replies[1]))

\* the timer of attempt i expires in this step
Expires(i) ==
  /\ i \in 1..Len(att)
  /\ i \in 1..Len(att')
  /\ att[i].timer = "armed"
  /\ att'[i].timer = "fired"

\* C14: the timers of concurrent attempts are independent: the expiry of
\* one attempt's timer rejects that attempt only and closes at most its own
\* tab; every sibling keeps its tab, its listener, its timer and its
\* promise, and a pending sibling with a tab stays able to succeed.
C14_TimersIndependent ==
  /\ [][\A i \in AttemptIds :
          Expires(i)
            => /\ att'[i].promise = "rejected"
               /\ \A j \in 1..Len(att) : j # i => att'[j] = att[j]
               /\ tabs \ tabs' \subseteq {att[i].tabId}
               /\ Len(att') = Len(att)]_vars
  /\ [](\A j \in 1..Len(att) :
          (att[j].create = "created" /\ att[j].promise = "pending")
            => /\ att[j].listening
               /\ att[j].tabId \in tabs
               /\ att[j].timer = "armed")

C14_Witness ==
  /\ Len(att) = 2
  /\ att[1].timer = "fired"
  /\ att[1].cause = "timeout"
  /\ att[1].tabId \notin tabs
  /\ att[1].removes = 1
  /\ att[2].promise = "fulfilled"
  /\ att[2].timer = "cleared"
  /\ att[2].sent
  /\ att[2].tabId > att[1].tabId

(***************************************************************************)
(* Properties of the content script                                        *)
(***************************************************************************)

WebSearchTypes == {"SEARCH_REQUEST", "SEARCH_ONLY_REQUEST", "EXTRACT_URLS_REQUEST"}

\* C21: while the permission mode is 'ask', a web-search request of the web
\* app is forwarded to the background only after the user was asked about
\* that request and confirmed it; a denied request is answered with
\* SEARCH_DENIED and not forwarded.
C21_AskModeConfirms ==
  \A w \in WebReqIds :
    (web[w].type \in WebSearchTypes /\ web[w].mode = "ask")
      => /\ web[w].st = "forwarded" => (web[w].asked /\ web[w].confirmed)
         /\ (web[w].asked /\ ~web[w].confirmed)
              => (web[w].st = "denied" /\ web[w].posted = "SEARCH_DENIED")

(***************************************************************************)
(* Properties of the timestamps of a run                                   *)
(***************************************************************************)

\* C23: the returned result has status 'completed', its timestamp is the
\* time the run started, hence not later than any source's extractedAt, and
\* completedAt is set at finalization with timestamp <= completedAt.
C23_TimestampAtStart ==
  run.pc = "done"
    => /\ run.result.status = "completed"
       /\ run.result.timestamp.t = "number"
       /\ \A i \in 1..Len(run.extractedAt) :
            run.result.timestamp.v <= run.extractedAt[i]
       /\ run.result.completedAt.t = "number"
       /\ run.result.timestamp.v <= run.result.completedAt.v

(***************************************************************************)
(* Properties of the harvest signal                                        *)
(***************************************************************************)

\* the signal of attempt i's tab has been dispatched to the listeners
Delivered(i) ==
  /\ att[i].sent
  /\ \A m \in inflight : m.tab # att[i].tabId

\* C22: an exception during extraction does not abort the harvest: the page
\* still sends its signal, with empty content and wordCount 0; the attempt
\* that receives it before its timer expires succeeds, and the reply's
\* sources hold an entry for that URL with zero-length content.
C22_ExtractionErrorIsSuccess ==
  \A i \in 1..Len(att) :
    PageAt(att[i].url).throws
      => /\ \A m \in inflight :
              m.tab = att[i].tabId
                => (m.data.content = <<>> /\ m.data.wordCount = 0)
         /\ (Delivered(i) /\ att[i].timer = "cleared")
              => /\ att[i].promise = "fulfilled"
                 /\ att[i].value.url = att[i].url
                 /\ att[i].value.content = <<>>
                 /\ att[i].value.wordCount = 0
                 /\ pc = "done"
                      => \E k \in 1..Len(replies[1].sources) :
                           /\ replies[1].sources[k].url = att[i].url
                           /\ replies[1].sources[k].content = <<>>
                           /\ replies[1].sources[k].wordCount = 0

C22_Witness ==
  /\ pc = "done"
  /\ Len(replies) = 1
  /\ replies[1].success
  /\ \E i \in 1..Len(att) :
       /\ PageAt(att[i].url).throws
       /\ Delivered(i)
       /\ att[i].promise = "fulfilled"
       /\ \E k \in 1..Len(replies[1].sources) :
            /\ replies[1].sources[k].url = att[i].url
            /\ replies[1].sources[k].content = <<>>

\* C24: whenever the timer of an attempt has expired, the attempt has
\* failed by timeout and the tab opened for it is eventually discarded,
\* also when the timer expires before chrome.tabs.create has resolved.
C24_TimeoutDiscardsTab ==
  \A i \in AttemptIds :
    /\ [](i <= Len(att) /\ att[i].timer = "fired"
            => (att[i].promise = "rejected" /\ att[i].cause = "timeout"))
    /\ (i <= Len(att) /\ att[i].timer = "fired" /\ att[i].create = "created")
         ~> (i <= Len(att) /\ att[i].tabId \notin tabs)

\* C25: an attempt succeeds only on a signal sent by the tab it created,
\* with the data of that signal; the dispatch of a signal from any other tab
\* (a sibling's tab, a user tab) leaves the attempt unchanged and its tab
\* open.
C25_OnlyOwnTabSignal ==
  [][\A i \in AttemptIds :
       (i <= Len(att) /\ i <= Len(att'))
         => /\ (att[i].promise = "pending" /\ att'[i].promise = "fulfilled")
                 => \E m \in inflight \ inflight' :
                      /\ att[i].create = "created"
                      /\ m.tab = att[i].tabId
                      /\ att'[i].value = Extracted(att[i].url, m.data)
            /\ (\E m \in inflight \ inflight' : m.tab # att[i].tabId)
                 => /\ att'[i] = att[i]
                    /\ att[i].tabId \in tabs => att[i].tabId \in tabs']_vars

C25_Witness ==
  /\ Len(att) >= 2
  /\ att[1].promise = "pending"
  /\ att[1].listening
  /\ att[1].tabId \in tabs
  /\ ~att[1].sent
  /\ att[2].promise = "fulfilled"
  /\ straySent = UserTabs
  /\ inflight = {}

\* C26 as stated: an attempt whose tab has sent its signal while the timer
\* was still armed does not fail.
C26_SentBeforeExpirySucceeds ==
  [][\A i \in AttemptIds :
       (i <= Len(att) /\ i <= Len(att') /\ att[i].sent /\ att[i].timer = "armed")
         => att'[i].promise # "rejected"]_vars

\* C26, amended: a signal of the attempt's tab that is dispatched while the
\* timer is still armed makes the attempt succeed with the content and
\* wordCount of that signal and with its title (the URL when the title is
\* empty); an attempt fails by timeout only if no signal of its tab was
\* dispatched before the timer expired.
C26_ArrivedBeforeExpirySucceeds ==
  [][\A i \in AttemptIds :
       (i <= Len(att) /\ i <= Len(att'))
         => /\ \A m \in inflight \ inflight' :
                 (m.tab = att[i].tabId /\ att[i].timer = "armed")
                   => /\ att'[i].promise = "fulfilled"
                      /\ att'[i].timer = "cleared"
                      /\ att'[i].value.url = att[i].url
                      /\ att'[i].value.content = m.data.content
                      /\ att'[i].value.wordCount = m.data.wordCount
                      /\ att'[i].value.title =
                           IF m.data.title # <<>> THEN m.data.title ELSE att[i].url
            /\ (att[i].promise = "pending" /\ att'[i].promise = "rejected"
                  /\ att'[i].cause = "timeout")
                 => (~att[i].sent \/ \E m \in inflight : m.tab = att[i].tabId)]_vars

C26_Witness ==
  /\ Len(att) >= 1
  /\ att[1].sent
  /\ \A m \in inflight : m.tab # att[1].tabId
  /\ att[1].timer = "cleared"
  /\ att[1].promise = "fulfilled"
  /\ att[1].value.title = PageData(att[1].url).title
  /\ att[1].value.content = PageData(att[1].url).content
  /\ att[1].value.wordCount = 2

\* C27: an attempt settles exactly once: once it has succeeded or failed,
\* its outcome, value and cause never change (no timeout after a success, no
\* success after a timeout or an error), the reply is sent once and holds
\* exactly the values of the attempts that succeeded.
C27_SettlesOnce ==
  /\ [][/\ \A i \in AttemptIds :
             (i <= Len(att) /\ i <= Len(att') /\ att[i].promise # "pending")
               => /\ att'[i].promise = att[i].promise
                  /\ att'[i].value = att[i].value
                  /\ att'[i].cause = att[i].cause
        /\ replies # <<>> => replies' = replies]_vars
  /\ [](\A i \in 1..Len(att) :
          /\ att[i].promise = "fulfilled" <=> att[i].value # NoValue
          /\ att[i].promise = "rejected" <=> att[i].cause # "none"
          /\ (pc = "done" /\ att[i].promise = "rejected")
               => att[i].url \notin Range(SourceUrls(replies[1])))

C27_Witness ==
  /\ pc = "done"
  /\ Len(att) = 1
  /\ att[1].cause = "timeout"
  /\ att[1].promise = "rejected"
  /\ att[1].sent
  /\ \A m \in inflight : m.tab # att[1].tabId
  /\ ~att[1].listening
  /\ att[1].create = "created"
  /\ replies[1].sources = <<>>

(***************************************************************************)
(* Properties of the order of the sources                                  *)
(***************************************************************************)

Succeeded == {i \in 1..Len(att) : att[i].promise = "fulfilled"}

\* the k-th attempt that succeeded, in the order of the harvested URL list
KthSucceeded(k) ==
  CHOOSE i \in Succeeded : Cardinality({j \in Succeeded : j <= i}) = k

\* C28: the sources of a reply are the records of the attempts that
\* succeeded, one per attempt, in the order of the harvested URL list,
\* whatever the order in which the attempts completed.
C28_SourcesInListOrder ==
  (pc = "done" /\ thrown = "none" /\ request.type # "SEARCH_ONLY")
    => /\ Len(replies[1].sources) = Cardinality(Succeeded)
       /\ \A k \in 1..Len(replies[1].sources) :
            /\ replies[1].sources[k] = att[KthSucceeded(k)].value
            /\ replies[1].sources[k].url = att[KthSucceeded(k)].url
       /\ \A i \in 1..Len(att) :
            att[i].url = IF request.type = "SEARCH_AND_EXTRACT"
                         THEN urlsToOpen[i] ELSE request.urls.v[i]

C28_Witness ==
  /\ pc = "done"
  /\ Len(att) = 3
  /\ att[1].promise = "fulfilled"
  /\ att[2].promise = "rejected"
  /\ att[3].promise = "fulfilled"
  /\ SourceUrls(replies[1]) = <<att[1].url, att[3].url>>

(***************************************************************************)
(* Properties of Adapter B's result                                        *)
(***************************************************************************)

AcceptablePositions == {i \in 1..Len(htmlIn) : AcceptableUddg(htmlIn[i])}

AcceptableUrls == {decodeURIComponent(htmlIn[i].raw) : i \in AcceptablePositions}

\* the position in the body of the first acceptable uddg= value that
\* decodes to u
FirstPos(u) ==
  CHOOSE i \in AcceptablePositions :
    /\ decodeURIComponent(htmlIn[i].raw) = u
    /\ \A j \in AcceptablePositions :
         decodeURIComponent(htmlIn[j].raw) = u => i <= j

\* C29: for every body, Adapter B returns at most 3 URLs without
\* duplicates, each the decoded value of a uddg= parameter that starts with
\* 'http' and does not contain the provider's domain, in the order of their
\* first occurrence in the body: the first 3 distinct such values, or all of
\* them when there are fewer; a value that cannot be decoded is skipped and
\* the other matches are kept.
C29_AdapterBResult ==
  htmlPc = "out"
    => /\ htmlOut.t = "list"
       /\ Len(htmlOut.v) <= 3
       /\ \A k, l \in 1..Len(htmlOut.v) : k # l => htmlOut.v[k] # htmlOut.v[l]
       /\ \A k \in 1..Len(htmlOut.v) : htmlOut.v[k] \in AcceptableUrls
       /\ \A k, l \in 1..Len(htmlOut.v) :
            k < l => FirstPos(htmlOut.v[k]) < FirstPos(htmlOut.v[l])
       /\ Len(htmlOut.v) = IF Cardinality(AcceptableUrls) < 3
                           THEN Cardinality(AcceptableUrls) ELSE 3
       /\ \A u \in AcceptableUrls :
            (\A k \in 1..Len(htmlOut.v) : htmlOut.v[k] # u)
              => \A k \in 1..Len(htmlOut.v) : FirstPos(htmlOut.v[k]) < FirstPos(u)

C29_Witness ==
  /\ htmlPc = "out"
  /\ Len(htmlIn) = 5
  /\ htmlIn[1] = Uddg(Encode(SiteC))
  /\ htmlIn[2] = Uddg(<<"http", MalformedTok>>)
  /\ htmlIn[3] = Uddg(Encode(DdgSelf))
  /\ htmlIn[4] = Uddg(Encode(SiteC))
  /\ htmlIn[5] = Uddg(Encode(SiteD))
  /\ htmlOut.v = <<SiteC, SiteD>>

(***************************************************************************)
(* Properties of the cleaned text                                          *)
(***************************************************************************)

\* C30: the cleaned text of every page is in normal form: no leading or
\* trailing whitespace, no two adjacent whitespace characters, no
\* whitespace other than the plain space, and no control character.
C30_CleanNormalForm ==
  (clPc = "out" /\ ~clIn.throws)
    => LET c == clOut.data.content
       IN /\ c # <<>> => (~IsWs(c[1]) /\ ~IsWs(c[Len(c)]))
          /\ \A i \in 1..(Len(c) - 1) : ~(IsWs(c[i]) /\ IsWs(c[i + 1]))
          /\ \A i \in 1..Len(c) : IsWs(c[i]) => c[i] = " "
          /\ \A i \in 1..Len(c) : ~IsCtl(c[i])

(***************************************************************************)
(* Specification of extractMainContent on its own                          *)
(***************************************************************************)

InitDoc ==
  /\ InitRun
  /\ InitAggIdle
  /\ InitMsgIdle
  /\ InitCleanIdle
  /\ InitHtmlIdle
  /\ InitPerm
  /\ InitTime
  /\ InitPageIdle
  /\ InitApiIdle
  /\ docIn \in {d \in Documents :
                  \A i \in 1..Len(mainSelectors) :
                    i > MaxSelectors => d.els[i] = NoElement}
  /\ docOut = extractMainContent(NoDocument)
  /\ docPc = "in"

Select ==
  /\ docPc = "in"
  /\ docOut' = extractMainContent(docIn)
  /\ docPc' = "out"
  /\ UNCHANGED <<docIn, runVars, aggVars, msgVars, cleanVars,
                 htmlVars, permVars, timeVars, pageVars, apiVars>>

NextDoc == Select

SpecDoc == InitDoc /\ [][NextDoc]_vars

\* the selectors of strategy 1 whose element has a text of at least 500
\* characters
Reaching(doc) ==
  {i \in 1..Len(mainSelectors) :
     doc.els[i].t = "element" /\ doc.els[i].len >= 500}

\* C31: strategy 1 accepts the first selector, in the fixed order, whose
\* text has at least 500 characters (a text of exactly 500 characters is
\* accepted); the encyclopedia strategy and the body fallback are used only
\* when no selector reaches that length
C31_FirstReachingAccepted ==
  docPc = "out" =>
    IF Reaching(docIn) # {}
    THEN \E i \in Reaching(docIn) :
           /\ \A k \in Reaching(docIn) : i <= k
           /\ docOut = Content(mainSelectors[i], docIn.els[i].len)
    ELSE docOut.from \in {"#mw-content-text", "body"}

\* the attempts whose listener is registered with chrome.runtime.onMessage
Registered == {i \in 1..Len(att) : att[i].listening}

\* the attempts whose promise is neither fulfilled nor rejected
PendingAttempts == {i \in 1..Len(att) : att[i].promise = "pending"}

\* C33: once an attempt has settled its listener is no longer registered:
\* the registered harvest listeners are never more than the pending
\* attempts, and none is left when the run is over
C33_ListenersWithinPending ==
  /\ \A i \in 1..Len(att) : att[i].promise # "pending" => ~att[i].listening
  /\ Cardinality(Registered) <= Cardinality(PendingAttempts)
  /\ pc = "done" => Registered = {}

(***************************************************************************)
(* Specification of one EXTRACT_URLS request whose list is one entry       *)
(* longer than MAX_PAGES_PER_SEARCH; every tab is created and no user tab  *)
(* signals                                                                 *)
(***************************************************************************)

LongList == JsList(SubSeq(ExtractList, 1, MAX_PAGES_PER_SEARCH + 1))

NextLong ==
  \/ ReceiveExtract(LongList)
  \/ Finalize
  \/ \E i \in 1..Len(att) : TabCreated(i)
  \/ \E i \in 1..Len(att) : TimerFires(i)
  \/ \E i \in 1..Len(att) : TabSends(i)
  \/ \E msg \in inflight : Deliver(msg)

SpecLong == Init /\ [][NextLong]_vars

\* the tabs the attempts of the request have created and that are open
HarvestTabs == {att[i].tabId : i \in 1..Len(att)} \cap tabs

\* C32: for an EXTRACT_URLS request with a list of any length, at no time
\* are more than MAX_PAGES_PER_SEARCH harvest tabs of the request open, and
\* the returned sources has at most MAX_PAGES_PER_SEARCH entries
C32_ExtractWithinBudget ==
  request.type = "EXTRACT_URLS" =>
    /\ Cardinality(HarvestTabs) <= MAX_PAGES_PER_SEARCH
    /\ \A k \in 1..Len(replies) :
         replies[k].success
           => Len(replies[k].sources) <= MAX_PAGES_PER_SEARCH

\* C34: the content script forwards a search request to the background only
\* when the page it runs in is the web app, i.e. its origin is one of
\* ALLOWED_ORIGINS; a message posted by any other page is never forwarded
C34_OnlyWebAppForwards ==
  \A w \in WebReqIds :
    web[w].st = "forwarded" => script.origin \in ALLOWED_ORIGINS

\* the mode a content script that reads the storage now would hold
StoredMode ==
  IF storage.permissionMode = "undefined" THEN "ask" ELSE storage.permissionMode

\* C35: the permission mode of a web app page's content script converges to
\* the stored setting: once the storage read of establishConnection has
\* returned and every PERMISSION_MODE_CHANGED notification has been
\* handled, permissionMode is the last saved mode; before the content
\* script has loaded anything it is 'ask'
C35_ModeConverges ==
  /\ (script.isWebApp /\ script.read = "done" /\ notices = <<>>)
       => permissionMode = StoredMode
  /\ ~script.loaded => permissionMode = "ask"

(***************************************************************************)
(* Specification of chrome.storage.local under the popup's saves and the   *)
(* background's update checks                                              *)
(***************************************************************************)

NextUpd ==
  \/ \E mode \in Modes : PopupSaves(mode)
  \/ \E lang \in Languages : SetLanguage(lang)
  \/ \E answer \in UpdateAnswers, setOk \in BOOLEAN, retryOk \in BOOLEAN :
       CheckForUpdates(answer, setOk, retryOk)

SpecUpd == Init /\ [][NextUpd]_vars

\* C38: an update check changes at most pendingUpdate: on every path the
\* stored permissionMode and language are what they were before the call,
\* and the call returns a boolean
C38_UpdateCheckFrame ==
  upd.ret # "none" =>
    /\ upd.after.permissionMode = upd.before.permissionMode
    /\ upd.after.language = upd.before.language
    /\ upd.ret \in {"true", "false"}

(***************************************************************************)
(* Specification of the API proxy of the external listener                 *)
(***************************************************************************)

NextApi ==
  \/ \E a \in ApiReqIds : ChatCompletions(a)
  \/ \E a \in ApiReqIds, found \in TabLists : QueryReturns(a, found)
  \/ \E tab \in ApiTabs, rid \in ApiReqIds, type \in ApiMsgTypes :
       ApiMessage(tab, rid, type)
  \/ \E a \in ApiReqIds : ApiTimeout(a)
  \/ \E f \in FetchIds : FetchJson(f)
  \/ \E f \in FetchIds : FetchSettles(f)

SpecApi == Init /\ [][NextApi]_vars

\* the CHAT_COMPLETIONS requests received and not yet answered
InboundInFlight == {a \in ApiReqIds : api[a].st \in {"query", "waiting"}}

OutboundInFlight == {f \in FetchIds : fetches[f] = "inflight"}

\* C36: for each direction, active is true exactly while at least one
\* request of that direction is in flight, also when requests overlap, and
\* totalRequests is the number of requests received
C36_StatsReflectInFlight ==
  /\ apiStats.inbound.active <=> InboundInFlight # {}
  /\ apiStats.outbound.active <=> OutboundInFlight # {}
  /\ apiStats.inbound.totalRequests
       = Cardinality({a \in ApiReqIds : api[a].st # "none"})
  /\ apiStats.outbound.totalRequests
       = Cardinality({f \in FetchIds : fetches[f] # "none"})

\* C37: each CHAT_COMPLETIONS request is resolved exactly once (a resolved
\* request keeps its result and is answered once), by an
\* OPENAI_API_RESPONSE or OPENAI_API_ERROR message from its target tab
\* carrying its requestId, by its timeout, or by the absence of an Edge AI
\* tab; no message for another request or from another tab resolves it;
\* its listener is registered while it waits and removed once it is
\* resolved
C37_ResolvedOnceByOwnAnswer ==
  /\ [][\A a \in ApiReqIds :
          api[a].st = "resolved"
            => /\ api'[a].st = "resolved"
               /\ api'[a].value = api[a].value
               /\ api'[a].by = api[a].by
               /\ api'[a].responses = api[a].responses]_vars
  /\ [](\A a \in ApiReqIds :
          /\ api[a].responses = IF api[a].st = "resolved" THEN 1 ELSE 0
          /\ api[a].st = "waiting" => api[a].listening /\ api[a].timer = "armed"
          /\ api[a].st = "resolved" =>
               /\ ~api[a].listening
               /\ api[a].value \in {"data", "error", "timeout", "notab"}
               /\ api[a].value \in {"data", "error"} =>
                    /\ api[a].by.kind = "message"
                    /\ api[a].by.tab = api[a].target
                    /\ api[a].by.rid = a
                    /\ api[a].by.type = IF api[a].value = "data"
                                        THEN "OPENAI_API_RESPONSE"
                                        ELSE "OPENAI_API_ERROR"
               /\ api[a].value = "timeout" =>
                    api[a].by.kind = "timeout" /\ api[a].timer = "fired"
               /\ api[a].value = "notab" =>
                    api[a].by.kind = "notab" /\ api[a].target = 0)

\* two requests wait on the same tab; the tab's response for a1 has resolved
\* a1 only, and a1's timer has fired since without changing its result
C37_Witness ==
  /\ api["a1"].st = "resolved"
  /\ api["a1"].value = "data"
  /\ api["a1"].timer = "fired"
  /\ api["a2"].st = "waiting"
  /\ api["a2"].target = api["a1"].target

====
